---- MODULE Spec2Model ----
(***************************************************************************)
(* A model of the AI tutoring service's invocation and caching layer:      *)
(* OpenAIClient.create_completion (the retry loop), RedisClient (the       *)
(* best-effort cache wrapper) and the three orchestrators                  *)
(* (ExplanationService.get_explanation, TestGenerationService.generate_test*)
(* and LearningPlanService.generate_plan), run as request tasks on one     *)
(* asyncio event loop.                                                     *)
(***************************************************************************)
EXTENDS Integers, Sequences, FiniteSets, TLC

VARIABLES
    max_retries,   \* OpenAIClient.max_retries  (settings.max_retries)
    retry_delay,   \* OpenAIClient.retry_delay  (settings.retry_delay)
    phase,         \* "startup" before lifespan ran connect(), then "serving",
                   \* "stopped" once it ran disconnect()
    redis,         \* RedisClient.redis: "none" (None), "client", or "closed"
                   \* (a client whose connections are closed for good)
    storeUp,       \* whether the Redis server answers commands
    cache,         \* the entries held by the Redis server
    loop,          \* the tasks running on the event loop thread: none or one
    pc,            \* per task: where the request's coroutine stands
    req,           \* per task: the request it serves
    attempt,       \* per task: the loop variable of create_completion
    calls,         \* per task: endpoint invocations made for the request
    sleeps,        \* per task: the time.sleep durations of the invocation
    inv,           \* per task: the state of its create_completion invocation
    error,         \* per task: the exception the request ended with
    result,        \* per task: the value the orchestrator returned
    lastOutcome,   \* per task: what its latest endpoint call ended with
    allRetryable,  \* per task: every endpoint call so far failed retryably
    outage,        \* per task: a cache command of the request found no store
    expired,       \* whether an entry has been dropped at the end of its TTL
    log,           \* the cache and endpoint events of the requests, in order
    op             \* the latest call made on the cache layer, with its return

vars == <<max_retries, retry_delay, phase, redis, storeUp, cache, loop, pc,
          req, inv, attempt, calls, sleeps, error, result, lastOutcome,
          allRetryable, outage, expired, log, op>>

----------------------------------------------------------------------------
(* Bounds of the model *)

MaxRetriesBound == 4
MaxRetryDelay == 2
NumTexts == 2
MaxAdds == 2

\* The add_message calls made on one conversation, more than max_messages
MaxMessages == 12

\* The add_message calls made by two coroutines
MaxConcurrentAdds == 4

\* The messages of a conversation whose topics are read
MaxTopicMessages == 5
MaxStructured == 5
MaxRelated == 7

(* Program constants *)

DefaultMaxRetries == 3
DefaultRetryDelay == 1
RedisCacheTtl == 86400
TestCacheTtl == 3600
PlanCacheTtl == 86400
ContextTtl == 3600
ContextMaxMessages == 10

\* The request tasks: the claims are about one request or about a pair
Tasks == {1, 2}

Min(a, b) == IF a <= b THEN a ELSE b
Max(a, b) == IF a >= b THEN a ELSE b

RECURSIVE Pow2(_)
Pow2(n) == IF n = 0 THEN 1 ELSE 2 * Pow2(n - 1)

----------------------------------------------------------------------------
(* Strings are sequences of one-character strings; an Optional value is a  *)
(* sequence of length 0 (None) or 1.                                       *)

None == <<>>
Some(v) == <<v>>

LowerChar(c) ==
    CASE c = "A" -> "a"
      [] c = "B" -> "b"
      [] c = "M" -> "m"
      [] OTHER -> c

\* str.lower()
Lower(s) == [i \in 1..Len(s) |-> LowerChar(s[i])]

IsSpace(c) == c = " "

RECURSIVE LStrip(_)
LStrip(s) == IF s # <<>> /\ IsSpace(Head(s)) THEN LStrip(Tail(s)) ELSE s

RECURSIVE RStrip(_)
RStrip(s) ==
    IF s # <<>> /\ IsSpace(s[Len(s)]) THEN RStrip(SubSeq(s, 1, Len(s) - 1)) ELSE s

\* str.strip()
Strip(s) == RStrip(LStrip(s))

\* Python truthiness of a str: the empty string is falsy
TruthyStr(s) == s # <<>>

CharCode(c) ==
    CASE c = " " -> 32
      [] c = "*" -> 42
      [] c = ":" -> 58
      [] c = "A" -> 65
      [] c = "B" -> 66
      [] c = "M" -> 77
      [] c = "_" -> 95
      [] c = "a" -> 97
      [] c = "b" -> 98
      [] c = "c" -> 99
      [] c = "d" -> 100
      [] c = "e" -> 101
      [] c = "f" -> 102
      [] c = "h" -> 104
      [] c = "i" -> 105
      [] c = "l" -> 108
      [] c = "m" -> 109
      [] c = "n" -> 110
      [] c = "o" -> 111
      [] c = "p" -> 112
      [] c = "r" -> 114
      [] c = "s" -> 115
      [] c = "t" -> 116
      [] c = "u" -> 117
      [] OTHER -> 0

\* Python's < on str: lexicographic by code point
RECURSIVE StrLess(_, _)
StrLess(a, b) ==
    IF b = <<>> THEN FALSE
    ELSE IF a = <<>> THEN TRUE
    ELSE IF CharCode(Head(a)) # CharCode(Head(b))
         THEN CharCode(Head(a)) < CharCode(Head(b))
    ELSE StrLess(Tail(a), Tail(b))

\* sorted(list of str)
SortedStrs(l) == SortSeq(l, StrLess)

\* sep.join(list of str), the items and the separator sequences of characters
RECURSIVE Join(_, _)
Join(sep, l) ==
    IF l = <<>> THEN <<>>
    ELSE IF Len(l) = 1 THEN l[1]
    ELSE l[1] \o sep \o Join(sep, Tail(l))

\* The Literal values of TestGenerationRequest.question_types
MultipleChoice ==
    <<"m", "u", "l", "t", "i", "p", "l", "e", "_", "c", "h", "o", "i", "c", "e">>
TrueFalse == <<"t", "r", "u", "e", "_", "f", "a", "l", "s", "e">>
OpenEnded == <<"o", "p", "e", "n", "_", "e", "n", "d", "e", "d">>

QuestionTypes == {MultipleChoice, TrueFalse, OpenEnded}

\* str(n) of an int n >= 0
Digit(d) ==
    CASE d = 0 -> "0" [] d = 1 -> "1" [] d = 2 -> "2" [] d = 3 -> "3"
      [] d = 4 -> "4" [] d = 5 -> "5" [] d = 6 -> "6" [] d = 7 -> "7"
      [] d = 8 -> "8" [] d = 9 -> "9"

RECURSIVE PyStr(_)
PyStr(n) == IF n < 10 THEN <<Digit(n)>> ELSE PyStr(n \div 10) \o <<Digit(n % 10)>>

----------------------------------------------------------------------------
(* Requests, as the orchestrators receive them from the routes *)

NoRequest == [orch |-> "none"]

\* ExplanationRequest.strip_whitespace: topic and subject arrive stripped
ExplanationRequest(topic, subject, level, context, use_cache) ==
    [orch |-> "explanation", topic |-> Strip(topic), subject |-> Strip(subject),
     student_level |-> level, context |-> context, use_cache |-> use_cache]

\* TestGenerationRequest.strip_whitespace / strip_topics
TestGenerationRequest(subject, topics, difficulty, count, types, level) ==
    [orch |-> "test", subject |-> Strip(subject),
     topics |-> SelectSeq([i \in 1..Len(topics) |-> Strip(topics[i])], TruthyStr),
     difficulty |-> difficulty, question_count |-> count,
     question_types |-> types, student_level |-> level]

\* GeneratePlanRequest, passed field by field to generate_plan
GeneratePlanRequest(student_id, level, subjects, exam_type, days) ==
    [orch |-> "plan", student_id |-> student_id, student_level |-> level,
     subjects |-> subjects, exam_type |-> exam_type, planning_days |-> days]

\* The JSON body posted to /explanations/: each key absent (or null) or
\* holding a value
ExplanationBody(topic, subject, student_level, context) ==
    [topic |-> topic, subject |-> subject, student_level |-> student_level,
     context |-> context]

\* max_length of topic, subject and context
TopicMaxLength == 500
SubjectMaxLength == 100
ContextMaxLength == 2000

\* The field constraints of ExplanationRequest without the range of
\* student_level
ValidExplanationBody_LevelUnchecked(body) ==
    /\ body.topic # None
    /\ Len(body.topic[1]) >= 1 /\ Len(body.topic[1]) <= TopicMaxLength
    /\ body.subject # None
    /\ Len(body.subject[1]) >= 1 /\ Len(body.subject[1]) <= SubjectMaxLength
    /\ body.student_level # None
    /\ body.context # None => Len(body.context[1]) <= ContextMaxLength

\* The field constraints of ExplanationRequest, checked on the posted values
\* before the validators strip topic and subject: topic and subject required
\* with min_length=1, student_level required with ge=1, le=12
ValidExplanationBody(body) ==
    /\ body.topic # None
    /\ Len(body.topic[1]) >= 1 /\ Len(body.topic[1]) <= TopicMaxLength
    /\ body.subject # None
    /\ Len(body.subject[1]) >= 1 /\ Len(body.subject[1]) <= SubjectMaxLength
    /\ body.student_level # None
    /\ body.student_level[1] >= 1 /\ body.student_level[1] <= 12
    /\ body.context # None => Len(body.context[1]) <= ContextMaxLength

\* The request object the handler is called with, and the body it came from
PostedRequest(body) ==
    ("posted" :> body) @@
    ExplanationRequest(body.topic[1], body.subject[1], body.student_level[1],
                       body.context, TRUE)

\* What the framework answers with for a body that fails validation
InvalidRequest(body) == [orch |-> "invalid", posted |-> body]

ExplanationBodies ==
    { ExplanationBody(Some(topic), Some(<<"m">>), Some(level), None) :
        topic \in { <<"a">>, <<" ", "a">>, <<" ">>, <<>>,
                    [i \in 1..(TopicMaxLength + 1) |-> "x"] },
        level \in {0, 1, 5, 12, 13, 15} } \cup
    { ExplanationBody(None, Some(<<"m">>), Some(5), None),
      ExplanationBody(Some(<<"a">>), None, None, None),
      ExplanationBody(Some(<<"a">>), None, Some(5), None),
      ExplanationBody(Some(<<"a">>), Some(<<"m">>), None, None),
      ExplanationBody(Some(<<"a">>), Some(<<>>), Some(5), None),
      ExplanationBody(Some(<<"a">>), Some(<<"m">>), Some(5), Some(<<"c">>)) }

\* The query parameters of GET /explanations/examples
ExamplesQuery(topic, subject, level, num_examples, context) ==
    [orch |-> "examples", topic |-> topic, subject |-> subject,
     student_level |-> level, num_examples |-> num_examples,
     context |-> context]

\* num_examples: int = Query(2, ge=1, le=5)
MaxNumExamples == 5

ExamplesQueries ==
    { ExamplesQuery(<<"a">>, <<"m">>, level, n, None) :
        level \in {5, 12}, n \in 1..MaxNumExamples }

ExplanationRequests ==
    { ExplanationRequest(<<"A">>, <<"M">>, 5, None, TRUE),
      ExplanationRequest(<<"a", " ">>, <<"m">>, 5, Some(<<" ">>), TRUE),
      ExplanationRequest(<<"b">>, <<"m">>, 12, None, TRUE),
      ExplanationRequest(<<"a">>, <<"m">>, 5, None, FALSE) }

TestRequests ==
    { TestGenerationRequest(<<"m">>, << <<"a">> >>, 5, 3,
                            <<TrueFalse, MultipleChoice>>, None) }

PlanRequests ==
    { GeneratePlanRequest(<<"s">>, 5, << <<"m">> >>, None, 7) }

Requests == ExplanationRequests \cup TestRequests \cup PlanRequests

\* The requests the cache keys are derived for: fields that differ in case,
\* in surrounding whitespace, in an absent or empty optional, or in value
KeyExplanationRequests ==
    { ExplanationRequest(topic, subject, level, context, TRUE) :
        topic \in {<<"A">>, <<"a">>, <<" ", "a">>, <<"b">>},
        subject \in {<<"M">>, <<"m">>},
        level \in {5, 6},
        context \in {None, Some(<<>>), Some(<<" ">>), Some(<<"B", " ">>),
                     Some(<<"b">>)} }

KeyTestRequests ==
    { TestGenerationRequest(subject, topics, 5, 3, <<TrueFalse>>, None) :
        subject \in {<<"M">>, <<"m">>, <<"m", " ">>, <<"b">>},
        topics \in { << <<"a">> >>, << <<"A">> >>, << <<"a">>, <<"b">> >>,
                     << <<"b">>, <<" ", "a">> >>, << <<"m">> >> } } \cup
    { TestGenerationRequest(<<"m">>, topics, 5, 3, types, level) :
        topics \in { << <<"a">>, <<"b">> >>, << <<"a", "_", "b">> >> },
        types \in { <<TrueFalse, MultipleChoice>>, <<MultipleChoice, TrueFalse>> },
        level \in { None, Some(8) } }

KeyPlanRequests ==
    { GeneratePlanRequest(student_id, 5, subjects, exam_type, 7) :
        student_id \in {<<"a">>, <<"b">>, <<"a", ":", "b">>},
        subjects \in { << <<"m">> >>, << <<"M">> >>, << <<"m", " ">> >>,
                       << <<"b">> >> },
        exam_type \in {None, Some(<<>>), Some(<<"s">>), Some(<<"S">>)} }

KeyRequests == KeyExplanationRequests \cup KeyTestRequests \cup KeyPlanRequests

\* The arguments of the invalidations
InvalidatedTopics == { <<<<"a">>, <<"m">>>>, <<<<>>, <<>>>> }
InvalidatedSubjects == {None, Some(<<"M">>), Some(<<"m">>)}
InvalidatedStudents == {<<"a">>, <<"b">>, <<"*">>}

----------------------------------------------------------------------------
(* Cache keys *)

\* hashlib.md5(...).hexdigest(), taken to be collision-free: the 32
\* hexadecimal digits are one token that stands for the string the digest was
\* computed from.  It is equal to no single character.
Md5(key_string) == ToString(<<"md5", key_string>>)

\* The literal parts of the keys
ExplanationPrefix == <<"e", "x", "p", "l", "a", "n", "a", "t", "i", "o", "n", ":">>
TestPrefix == <<"t", "e", "s", "t", ":">>
PlanPrefix == <<"l", "e", "a", "r", "n", "i", "n", "g", "_", "p", "l", "a", "n", ":">>
ConversationPrefix ==
    <<"c", "o", "n", "v", "e", "r", "s", "a", "t", "i", "o", "n", ":">>
Colon == <<":">>
General == <<"g", "e", "n", "e", "r", "a", "l">>

\* ExplanationKeyData without the level
ExplanationKeyData_NoLevel(r) ==
    << IF r.context # None /\ TruthyStr(r.context[1])
          THEN Strip(Lower(r.context[1])) ELSE <<>>,
       Strip(Lower(r.subject)),
       Strip(Lower(r.topic)) >>

\* json.dumps(key_data, sort_keys=True): the values in key order
\* context, level, subject, topic
ExplanationKeyData(r) ==
    << IF r.context # None /\ TruthyStr(r.context[1])
          THEN Strip(Lower(r.context[1])) ELSE <<>>,
       r.student_level,
       Strip(Lower(r.subject)),
       Strip(Lower(r.topic)) >>

\* ExplanationService._generate_cache_key: f"explanation:{key_hash}"
ExplanationCacheKey(r) == ExplanationPrefix \o <<Md5(ExplanationKeyData(r))>>

\* TestGenerationService._get_cache_key:
\* f"test:{subject}:{topics_str}:{difficulty}:{question_count}:{types_str}"
TestCacheKey(r) ==
    TestPrefix \o r.subject \o Colon
        \o Join(<<"_">>, SortedStrs(r.topics)) \o Colon
        \o PyStr(r.difficulty) \o Colon
        \o PyStr(r.question_count) \o Colon
        \o Join(<<"_">>, SortedStrs(r.question_types))

\* LearningPlanService._generate_cache_key:
\* f"learning_plan:{student_id}:{subjects_str}:{exam_str}:{planning_days}"
PlanCacheKey(r) ==
    PlanPrefix \o r.student_id \o Colon
        \o Join(<<"_">>, SortedStrs(r.subjects)) \o Colon
        \o (IF r.exam_type # None /\ TruthyStr(r.exam_type[1])
               THEN r.exam_type[1] ELSE General) \o Colon
        \o PyStr(r.planning_days)

\* ConversationContext._get_context_key
ConversationKey(user_id, conversation_id) ==
    ConversationPrefix \o user_id \o Colon \o conversation_id

CacheKey(r) ==
    CASE r.orch = "explanation" -> ExplanationCacheKey(r)
      [] r.orch = "test" -> TestCacheKey(r)
      [] r.orch = "plan" -> PlanCacheKey(r)

\* The keys the calls on the cache layer are made with: of an explanation, of
\* the tests of subject "M" and of subject "b" (on topic "m"), of the
\* learning plans of students "a:b" and "b", of a conversation
StoreKeys ==
    { ExplanationCacheKey(ExplanationRequest(<<"a">>, <<"m">>, 5, None, TRUE)),
      TestCacheKey(TestGenerationRequest(<<"M">>, << <<"a">> >>, 5, 3,
                                         <<TrueFalse>>, None)),
      TestCacheKey(TestGenerationRequest(<<"b">>, << <<"m">> >>, 5, 3,
                                         <<TrueFalse>>, None)),
      PlanCacheKey(GeneratePlanRequest(<<"a", ":", "b">>, 5, << <<"m">> >>,
                                       None, 7)),
      PlanCacheKey(GeneratePlanRequest(<<"b">>, 5, << <<"m">> >>, None, 7)) }

ConversationKeys == { ConversationKey(<<"a">>, <<"b">>) }

----------------------------------------------------------------------------
(* The completion endpoint *)

\* What one call of client.chat.completions.create can end with: a response
\* carrying a generated text, or one of the exceptions create_completion
\* distinguishes (APIError with its status_code).
Outcome(kind, status, text) == [kind |-> kind, status |-> status, text |-> text]

Outcomes ==
    { Outcome("ok", 200, i) : i \in 1..NumTexts } \cup
    { Outcome("RateLimitError", 429, 0),
      Outcome("APIConnectionError", 0, 0),
      Outcome("APIError", 500, 0),
      Outcome("APIError", 400, 0),
      Outcome("OpenAIError", 0, 0),
      Outcome("Exception", 0, 0) }

\* The generated texts, by what the response structurer reads off them:
\* the word count, the number of matches of the example patterns, whether
\* the word "example" occurs, the number of bulleted related-topic lines.
Text(i) ==
    CASE i = 1 -> [id |-> 1, words |-> 90, structured |-> 0, mentions |-> TRUE,
                   related |-> 0]
      [] i = 2 -> [id |-> 2, words |-> 500, structured |-> 4, mentions |-> TRUE,
                   related |-> 6]
      [] OTHER -> [id |-> i, words |-> 300, structured |-> 0, mentions |-> FALSE,
                   related |-> 2]

NoError == [kind |-> "none", status |-> 0]
Raised(kind, status) == [kind |-> kind, status |-> status]

\* The failure kinds the retry policy names retryable: rate-limited,
\* connectivity failure, server-side (5xx) endpoint error
RetryableFailure(e) ==
    \/ e.kind = "RateLimitError"
    \/ e.kind = "APIConnectionError"
    \/ e.kind = "APIError" /\ e.status >= 500

\* The failure kinds it names non-retryable: client-side (4xx) endpoint
\* error, any other unexpected failure
NonRetryableFailure(e) ==
    \/ e.kind = "APIError" /\ e.status < 500
    \/ e.kind = "OpenAIError"
    \/ e.kind = "Exception"

\* raise OpenAIError("Failed to create completion after all retries")
AllRetriesError == Raised("OpenAIError:after all retries", 0)

\* The methods OpenAIClient defines; calling any other name raises
\* AttributeError
OpenAIClientMethods == {"create_completion", "check_health"}

----------------------------------------------------------------------------
(* Response structuring (ExplanationService._parse_explanation) *)

\* Python's round(n / d) for n >= 0, d > 0: to nearest, ties to even
PyRound(n, d) ==
    LET q == n \div d
        r == n % d
    IN  IF 2 * r < d THEN q
        ELSE IF 2 * r > d THEN q + 1
        ELSE IF q % 2 = 0 THEN q ELSE q + 1

\* Example(title="Example", content="See explanation above for examples."),
\* where a matched example is named by its index 1, 2, ...
Placeholder == 0

\* _extract_examples with the placeholder added whenever the word occurs
ExtractExamples_PlaceholderAlways(text) ==
    LET found == [i \in 1..text.structured |-> i]
        all == IF text.mentions THEN Append(found, Placeholder) ELSE found
    IN  SubSeq(all, 1, Min(3, Len(all)))

\* _extract_examples: the matches in order of discovery, else one placeholder
\* when the word occurs, cut to 3.  An example is named by its index, the
\* placeholder by 0.
ExtractExamples(text) ==
    LET found == [i \in 1..text.structured |-> i]
        all == IF found = <<>> /\ text.mentions THEN <<Placeholder>> ELSE found
    IN  SubSeq(all, 1, Min(3, Len(all)))

\* _extract_related_topics: the bulleted lines, cut to 5
ExtractRelatedTopics(text) == [i \in 1..Min(5, text.related) |-> i]

\* _parse_explanation taking the student level as the difficulty
ParseExplanation_Unclamped(text, student_level) ==
    [content |-> text.id,
     examples |-> ExtractExamples(text),
     related_topics |-> ExtractRelatedTopics(text),
     difficulty |-> student_level,
     estimated_read_time |-> Max(1, PyRound(text.words, 200))]

ParseExplanation(text, student_level) ==
    [content |-> text.id,
     examples |-> ExtractExamples(text),
     related_topics |-> ExtractRelatedTopics(text),
     difficulty |-> Min(10, Max(1, student_level)),
     estimated_read_time |-> Max(1, PyRound(text.words, 200))]

\* generate_examples from the response on: examples =
\* self._extract_examples(content); return examples[:num_examples]
GenerateExamples(text, num_examples) ==
    LET examples == ExtractExamples(text)
    IN  [content |-> text.id,
         examples |-> SubSeq(examples, 1, Min(num_examples, Len(examples)))]

NoResult == [content |-> 0]

\* The field constraints of the Explanation record: difficulty ge=1, le=10,
\* estimated_read_time ge=1
ExplanationValid(e) ==
    /\ e.difficulty >= 1 /\ e.difficulty <= 10
    /\ e.estimated_read_time >= 1

\* student_level: int = Field(..., ge=1, le=12)
StudentLevels == 1..12

\* The raw texts given to the structurer: up to MaxStructured matches of the
\* example patterns and MaxRelated related-topic lines, word counts around
\* the rounding steps of the read time.  Both example patterns hold the
\* literal "Example" and are matched ignoring case, so a text with a match
\* has the word.
WordCounts == {0, 1, 99, 100, 101, 299, 300, 301, 500, 700, 2000}

ExplanationTexts ==
    { [id |-> 0, words |-> w, structured |-> s, mentions |-> m, related |-> r] :
        w \in WordCounts, s \in 0..MaxStructured, m \in BOOLEAN,
        r \in 0..MaxRelated } \
    { [id |-> 0, words |-> w, structured |-> s, mentions |-> FALSE,
       related |-> r] :
        w \in WordCounts, s \in 1..MaxStructured, r \in 0..MaxRelated }

----------------------------------------------------------------------------
(* Work distribution (TestGenerationService._distribute_questions) *)

\* question_count: int = Field(..., ge=1, le=50)
MaxQuestionCount == 50

\* A dict, as the sequence of its items in insertion order
Item(key, value) == [key |-> key, value |-> value]

\* d[key] = value: a key the dict holds keeps its position and gets the
\* new value, a new key goes to the end
DictSet(d, key, value) ==
    IF \E j \in 1..Len(d) : d[j].key = key
    THEN [j \in 1..Len(d) |-> IF d[j].key = key THEN Item(key, value) ELSE d[j]]
    ELSE Append(d, Item(key, value))

\* d.values()
DictValues(d) == [j \in 1..Len(d) |-> d[j].value]

\* Share without the extra unit: every type gets base_count
Share_NoExtra(total_count, n, i) == total_count \div n

\* Share with the extra units given to the last types of the list
Share_ExtraLast(total_count, n, i) ==
    (total_count \div n) + (IF i >= n - (total_count % n) THEN 1 ELSE 0)

\* base_count + (1 if i < remainder else 0), for the type at index i
\* (from 0) of n types
Share(total_count, n, i) ==
    LET base_count == total_count \div n
        remainder == total_count % n
    IN  base_count + (IF i < remainder THEN 1 ELSE 0)

\* for i, q_type in enumerate(question_types): distribution[q_type] = ...
RECURSIVE DistributeFrom(_, _, _, _)
DistributeFrom(distribution, total_count, question_types, i) ==
    IF i >= Len(question_types) THEN distribution
    ELSE DistributeFrom(
             DictSet(distribution, question_types[i + 1],
                     Share(total_count, Len(question_types), i)),
             total_count, question_types, i + 1)

\* _distribute_questions: an empty list of types divides by zero
DistributeQuestions(total_count, question_types) ==
    IF Len(question_types) = 0
    THEN [raised |-> Raised("ZeroDivisionError", 0), distribution |-> <<>>]
    ELSE [raised |-> NoError,
          distribution |-> DistributeFrom(<<>>, total_count, question_types, 0)]

----------------------------------------------------------------------------
(* Question structuring (TestGenerationService._parse_questions_response   *)
(* and the record construction of _generate_questions_by_type)             *)

\* The endpoint's text, as the sequence of the pieces the parser tells apart:
\* a code fence, the tag json, white space, a JSON list, a JSON object, any
\* other text.  The elements of the JSON list are carried beside the text.
Fence == "fence"
JsonTag == "json"
JsonList == "[]"
JsonObject == "{}"
OtherText == "x"

QuestionsContent(text, items) == [text |-> text, items |-> items]

\* content.split(fence)[1] of a content that starts with a fence, given the
\* content after that fence: the text up to the next fence or the end
RECURSIVE UpToFence(_)
UpToFence(text) ==
    IF text = <<>> \/ Head(text) = Fence THEN <<>>
    ELSE <<Head(text)>> \o UpToFence(Tail(text))

\* The text handed to json.loads: stripped, and when it starts with a fence
\* the part inside the fence without the tag json, stripped
Unfenced(text) ==
    LET content == Strip(text)
    IN  IF content # <<>> /\ Head(content) = Fence
        THEN LET inside == UpToFence(Tail(content))
             IN  Strip(IF inside # <<>> /\ Head(inside) = JsonTag
                       THEN Tail(inside) ELSE inside)
        ELSE content

\* _parse_questions_response: the list json.loads gives, or ValueError when
\* the text is not JSON ("Invalid JSON response from AI") or not a list
\* ("Response is not a list")
ParseQuestionsResponse(content) ==
    LET text == Unfenced(content.text)
    IN  IF text = <<JsonList>>
        THEN [raised |-> NoError, questions |-> content.items]
        ELSE [raised |-> Raised("ValueError", 0), questions |-> <<>>]

\* A key of a JSON object: absent, null, or a value
Absent == None
Null == Some(None)
Value(v) == Some(Some(v))

QData(content, options, correct_answer, explanation, topic) ==
    [content |-> content, options |-> options,
     correct_answer |-> correct_answer, explanation |-> explanation,
     topic |-> topic]

\* _calculate_points with the second step at difficulty < 6
CalculatePoints_Shifted(difficulty) ==
    IF difficulty <= 3 THEN 1 ELSE IF difficulty < 6 THEN 2 ELSE 3

\* _calculate_points
CalculatePoints(difficulty) ==
    IF difficulty <= 3 THEN 1 ELSE IF difficulty <= 6 THEN 2 ELSE 3

\* GeneratedQuestion(id=..., type=question_type, content=q_data['content'],
\* ...) for the element at index i (from 0): the arguments are evaluated in
\* order (a missing key raises KeyError, topics[i % len(topics)] is evaluated
\* whether or not the element has a topic), then the record's fields are
\* validated (content, correct_answer, explanation and topic are required)
BuildQuestion(i, q_data, question_type, topics, difficulty) ==
    IF q_data.content = Absent \/ q_data.correct_answer = Absent
       \/ q_data.explanation = Absent
    THEN [raised |-> Raised("KeyError", 0)]
    ELSE IF Len(topics) = 0
    THEN [raised |-> Raised("ZeroDivisionError", 0)]
    ELSE LET question ==
                 [id |-> Some("uuid4"),
                  type |-> question_type,
                  content |-> q_data.content[1],
                  options |-> IF q_data.options = Absent THEN None
                              ELSE q_data.options[1],
                  correct_answer |-> q_data.correct_answer[1],
                  explanation |-> q_data.explanation[1],
                  difficulty |-> difficulty,
                  topic |-> IF q_data.topic # Absent THEN q_data.topic[1]
                            ELSE Some(topics[(i % Len(topics)) + 1]),
                  points |-> CalculatePoints(difficulty)]
         IN  IF \/ question.content = None
                \/ question.correct_answer = None
                \/ question.explanation = None
                \/ question.topic = None
                \/ question.type \notin QuestionTypes
                \/ question.difficulty < 1 \/ question.difficulty > 10
             THEN [raised |-> Raised("ValidationError", 0)]
             ELSE [raised |-> NoError, question |-> question]

\* for i, q_data in enumerate(questions_data): questions.append(question)
RECURSIVE BuildQuestions(_, _, _, _, _, _)
BuildQuestions(questions, questions_data, i, question_type, topics, difficulty) ==
    IF i >= Len(questions_data)
    THEN [raised |-> NoError, questions |-> questions]
    ELSE LET built == BuildQuestion(i, questions_data[i + 1], question_type,
                                    topics, difficulty)
         IN  IF built.raised # NoError
             THEN [raised |-> built.raised, questions |-> <<>>]
             ELSE BuildQuestions(Append(questions, built.question),
                                 questions_data, i + 1, question_type, topics,
                                 difficulty)

\* _generate_questions_by_type from the response on: the content is parsed
\* and the elements are made records; except Exception: raise
StructureQuestions(content, question_type, topics, difficulty) ==
    LET parsed == ParseQuestionsResponse(content)
    IN  IF parsed.raised # NoError THEN parsed
        ELSE BuildQuestions(<<>>, parsed.questions, 0, question_type, topics,
                            difficulty)

\* difficulty: int = Field(..., ge=1, le=10)
Difficulties == 1..10

\* Texts with and without fence, tag, white space and surrounding text
QuestionTexts ==
    { <<JsonList>>, <<" ", JsonList, " ">>,
      <<Fence, JsonTag, " ", JsonList, " ", Fence>>,
      <<Fence, " ", JsonList, Fence>>,
      <<Fence, JsonTag, JsonList>>,
      <<Fence, JsonList, Fence, OtherText>>,
      <<OtherText, Fence, JsonTag, JsonList, Fence>>,
      <<Fence, OtherText, JsonList, Fence>>,
      <<JsonList, OtherText>>,
      <<JsonObject>>, <<Fence, JsonTag, JsonObject, Fence>>,
      <<JsonTag, JsonList>>,
      <<OtherText>>, <<Fence>>, <<>> }

\* Elements with every key, without the optional ones, with a null or a
\* missing required one
QuestionElements ==
    { QData(Value("q"), Value("o"), Value("c"), Value("e"), Value(<<"z">>)),
      QData(Value("q"), Absent, Value("c"), Value("e"), Absent),
      QData(Value("q"), Null, Value("c"), Value("e"), Null),
      QData(Absent, Absent, Value("c"), Value("e"), Absent),
      QData(Value("q"), Absent, Absent, Value("e"), Absent),
      QData(Value("q"), Absent, Value("c"), Null, Value(<<"z">>)) }

QuestionLists ==
    { <<>> } \cup
    { <<q>> : q \in QuestionElements } \cup
    { <<QData(Value("q"), Absent, Value("c"), Value("e"), Absent), q,
        QData(Value("q"), Absent, Value("c"), Value("e"), Absent)>> :
          q \in QuestionElements }

\* Requested topics; the validator of topics drops blank ones after the
\* length check, so the list can be empty
TopicLists == { <<>>, << <<"a">> >>, << <<"a">>, <<"b">> >> }

\* The lists of question types a request can carry, up to one of each length
TypeLists ==
    UNION { [1..n -> QuestionTypes] : n \in 0..Cardinality(QuestionTypes) }

----------------------------------------------------------------------------
(* RedisClient *)

\* json.dumps / json.loads
JsonDumps(v) == <<"json", v>>
JsonLoads(s) == s[2]

\* self.redis is set and the server answers
Available == redis = "client" /\ storeUp

Stored(key) == { e \in cache : e.key = key }

\* RedisClient.get with the test of the fetched value inverted: never a hit
RedisGet_NeverHit(key) == None

\* RedisClient.get: None without a client or when the command raises, else
\* the decoded value of the entry
RedisGet(key) ==
    IF redis = "none" THEN None
    ELSE IF ~Available THEN None
    ELSE IF Stored(key) = {} THEN None
    ELSE Some(JsonLoads((CHOOSE e \in Stored(key) : TRUE).value))

\* RedisClient.set keeping an entry that exists (SET NX)
RedisSet_KeepFirst(key, value, ttl) ==
    IF redis = "none" THEN cache
    ELSE IF ~Available THEN cache
    ELSE IF Stored(key) # {} THEN cache
    ELSE cache \cup
         { [key |-> key, value |-> JsonDumps(value),
            ttl |-> IF ttl # None THEN ttl[1] ELSE RedisCacheTtl] }

\* RedisClient.set: the entries after setex(key, ttl, json.dumps(value)),
\* ttl defaulting to cache_ttl
RedisSet(key, value, ttl) ==
    IF redis = "none" THEN cache
    ELSE IF ~Available THEN cache
    ELSE (cache \ Stored(key)) \cup
         { [key |-> key, value |-> JsonDumps(value),
            ttl |-> IF ttl # None THEN ttl[1] ELSE RedisCacheTtl] }

\* RedisClient.delete: the entries after delete(key)
RedisDelete(key) ==
    IF redis = "none" THEN cache
    ELSE IF ~Available THEN cache
    ELSE cache \ Stored(key)

\* Surfaces with the except clause re-raising
Surfaces_Reraised(commandRaised) == commandRaised

\* Whether an exception of the store command leaves the wrapper method: the
\* command runs inside try, and except Exception logs and returns the
\* method's failure value
Surfaces(commandRaised) == FALSE

\* What a wrapper method returns: its value, and whether it raised instead.
\* The command is sent when there is a client object, and raises when the
\* server does not answer or the client's connections are closed.
Returned(value) ==
    [value |-> value, raised |-> Surfaces(redis # "none" /\ ~Available)]

----------------------------------------------------------------------------
(* Key patterns (redis KEYS) *)

\* The glob match of KEYS: * stands for any run of characters, ? for one,
\* any other character for itself
RECURSIVE GlobMatch(_, _)
GlobMatch(p, k) ==
    IF p = <<>> THEN k = <<>>
    ELSE IF Head(p) = "*"
         THEN GlobMatch(Tail(p), k) \/ (k # <<>> /\ GlobMatch(p, Tail(k)))
    ELSE IF k = <<>> THEN FALSE
    ELSE IF Head(p) = "?" THEN GlobMatch(Tail(p), Tail(k))
    ELSE Head(p) = Head(k) /\ GlobMatch(Tail(p), Tail(k))

\* await redis_client.redis.keys(pattern)
Keys(pattern) == { e.key : e \in { x \in cache : GlobMatch(pattern, x.key) } }

Star == <<"*">>

\* f"explanation:*{topic.lower()}*{subject.lower()}*"
ExplanationPattern(topic, subject) ==
    ExplanationPrefix \o Star \o Lower(topic) \o Star \o Lower(subject) \o Star

\* f"test:*{subject.lower()}*" if subject else "test:*"
TestPattern(subject) ==
    IF subject # None /\ TruthyStr(subject[1])
    THEN TestPrefix \o Star \o Lower(subject[1]) \o Star
    ELSE TestPrefix \o Star

\* f"learning_plan:{student_id}:*"
PlanPattern(student_id) == PlanPrefix \o student_id \o Colon \o Star

\* AllPatterns without the learning plans
AllPatterns_TwoDomains == <<ExplanationPrefix \o Star, TestPrefix \o Star>>

\* patterns = ["explanation:*", "test:*", "learning_plan:*"]
AllPatterns ==
    <<ExplanationPrefix \o Star, TestPrefix \o Star, PlanPrefix \o Star>>

\* Whether a key lies under a prefix
HasPrefix(k, prefix) ==
    Len(k) >= Len(prefix) /\ SubSeq(k, 1, Len(prefix)) = prefix

----------------------------------------------------------------------------
(* OpenAIClient.create_completion: the except clauses *)

\* ShouldRetry with the status test of the APIError clause inverted
ShouldRetry_StatusInverted(o, n, maxr) ==
    CASE o.kind = "RateLimitError" -> n < maxr - 1
      [] o.kind = "APIConnectionError" -> n < maxr - 1
      [] o.kind = "APIError" -> n < maxr - 1 /\ o.status < 500
      [] OTHER -> FALSE

\* ShouldRetry comparing the attempt with max_retries instead of
\* max_retries - 1
ShouldRetry_OffByOne(o, n, maxr) ==
    CASE o.kind = "RateLimitError" -> n < maxr
      [] o.kind = "APIConnectionError" -> n < maxr
      [] o.kind = "APIError" -> n < maxr /\ o.status >= 500
      [] OTHER -> FALSE

\* ShouldRetry without the status test of the APIError clause
ShouldRetry_AnyStatus(o, n, maxr) ==
    CASE o.kind = "RateLimitError" -> n < maxr - 1
      [] o.kind = "APIConnectionError" -> n < maxr - 1
      [] o.kind = "APIError" -> n < maxr - 1
      [] OTHER -> FALSE

\* ShouldRetry giving up one attempt early
ShouldRetry_OneShort(o, n, maxr) ==
    CASE o.kind = "RateLimitError" -> n < maxr - 2
      [] o.kind = "APIConnectionError" -> n < maxr - 2
      [] o.kind = "APIError" -> n < maxr - 2 /\ o.status >= 500
      [] OTHER -> FALSE

\* Whether the except clause that catches the failure sleeps and lets the
\* loop go on (TRUE) or re-raises (FALSE)
ShouldRetry(o, n, maxr) ==
    CASE o.kind = "RateLimitError" -> n < maxr - 1
      [] o.kind = "APIConnectionError" -> n < maxr - 1
      [] o.kind = "APIError" -> n < maxr - 1 /\ o.status >= 500
      [] OTHER -> FALSE

\* WaitTime growing linearly with the attempt
WaitTime_Linear(delay, n) == delay * (n + 1)

\* wait_time = self.retry_delay * (2 ** attempt)
WaitTime(delay, n) == delay * Pow2(n)

----------------------------------------------------------------------------
(* The events of a request, and the calls on the cache layer *)

Ev(t, e) == [task |-> t, ev |-> e]

\* get_explanation after the cache read: the cached value is returned, or
\* the flow goes on to generate
CheckEvents(t, cached) == <<Ev(t, IF cached # None THEN "hit" ELSE "miss")>>

\* CompletionEvents with the response structured before the endpoint call
CompletionEvents_StructureFirst(t, ok) ==
    IF ok THEN <<Ev(t, "structure"), Ev(t, "invoke")>> ELSE <<Ev(t, "invoke")>>

\* get_explanation from the endpoint call on: create_completion calls the
\* endpoint, and the response it returns is structured by _parse_explanation
CompletionEvents(t, ok) ==
    IF ok THEN <<Ev(t, "invoke"), Ev(t, "structure")>> ELSE <<Ev(t, "invoke")>>

\* get_explanation caches the result
WriteEvents(t) == <<Ev(t, "write")>>

\* No call made yet
NoOp == [name |-> "none", pc |-> "done"]

----------------------------------------------------------------------------
(* The state after construction *)

TaskInit ==
    /\ loop = {}
    /\ pc = [t \in Tasks |-> "idle"]
    /\ req = [t \in Tasks |-> NoRequest]
    /\ inv = [t \in Tasks |-> "none"]
    /\ attempt = [t \in Tasks |-> 0]
    /\ calls = [t \in Tasks |-> 0]
    /\ lastOutcome = [t \in Tasks |-> NoError]
    /\ allRetryable = [t \in Tasks |-> TRUE]
    /\ sleeps = [t \in Tasks |-> <<>>]
    /\ error = [t \in Tasks |-> NoError]
    /\ result = [t \in Tasks |-> NoResult]
    /\ outage = [t \in Tasks |-> FALSE]
    /\ log = <<>>
    /\ op = NoOp

StoreInit ==
    /\ phase = "startup"
    /\ redis = "none"
    /\ storeUp \in BOOLEAN
    /\ cache = {}
    /\ expired = FALSE

\* config.py: max_retries = 3, retry_delay = 1.0
Init ==
    /\ max_retries = DefaultMaxRetries
    /\ retry_delay = DefaultRetryDelay
    /\ StoreInit
    /\ TaskInit

\* The settings are read from the environment: any configured values
InitConfigured ==
    /\ max_retries \in 0..MaxRetriesBound
    /\ retry_delay \in 1..MaxRetryDelay
    /\ StoreInit
    /\ TaskInit

----------------------------------------------------------------------------
(* The environment: the Redis server and the application's lifespan *)

\* RedisClient.connect, awaited by lifespan before any request is served
Connect ==
    /\ phase = "startup"
    /\ phase' = "serving"
    /\ redis' = IF storeUp THEN "client" ELSE "none"
    /\ UNCHANGED <<log, op, max_retries, retry_delay, storeUp, cache, loop, pc, req, inv,
                   attempt, calls, lastOutcome, allRetryable, sleeps, error, result, outage, expired>>

StoreFail ==
    /\ storeUp
    /\ storeUp' = FALSE
    /\ UNCHANGED <<log, op, max_retries, retry_delay, phase, redis, cache, loop, pc, req,
                   inv, attempt, calls, lastOutcome, allRetryable, sleeps, error, result, outage, expired>>

StoreRecover ==
    /\ ~storeUp
    /\ storeUp' = TRUE
    /\ UNCHANGED <<log, op, max_retries, retry_delay, phase, redis, cache, loop, pc, req,
                   inv, attempt, calls, lastOutcome, allRetryable, sleeps, error, result, outage, expired>>

\* The server drops an entry whose TTL has run out
Expire ==
    /\ \E e \in cache : cache' = cache \ {e}
    /\ expired' = TRUE
    /\ UNCHANGED <<log, op, max_retries, retry_delay, phase, redis, storeUp, loop, pc, req,
                   inv, attempt, calls, lastOutcome, allRetryable, sleeps, error, result, outage>>

----------------------------------------------------------------------------
(* Request tasks on the event loop *)

\* A coroutine runs when the loop thread is free or is already running it
Runnable(t) == loop \subseteq {t}

Ended(t) == pc[t] \in {"done", "failed"}

\* self.cache_enabled = True, assigned in __init__ and nowhere else
cache_enabled == TRUE

\* Every request goes through the cache
UsesCache_Always(r) == r.orch \in {"test", "plan", "explanation"}

\* if use_cache and self.cache_enabled: the explanation flow reads and writes
\* the cache only then; the test and plan flows always do
UsesCache(r) ==
    \/ r.orch \in {"test", "plan"}
    \/ r.orch = "explanation" /\ r.use_cache /\ cache_enabled

\* await redis_client.get / set: the coroutine is suspended on the socket
\* only when there is a client; without one the call returns at once
AfterCacheCall(t) == IF redis = "none" THEN {t} ELSE {}

\* The exception swallowed and the flow going on to the cache write
Fail_Swallowed(t, e) ==
    /\ pc' = [pc EXCEPT ![t] = "cache_set"]
    /\ error' = [error EXCEPT ![t] = e]
    /\ loop' = AfterCacheCall(t)

\* The request ends with an exception
Fail(t, e) ==
    /\ pc' = [pc EXCEPT ![t] = "failed"]
    /\ error' = [error EXCEPT ![t] = e]
    /\ loop' = {}

\* for attempt in range(self.max_retries), taking the value n: the body runs
\* with attempt = n, or the range is used up and the raise after the loop
\* is reached
ForLoop(t, n) ==
    IF n < max_retries
    THEN /\ pc' = [pc EXCEPT ![t] = "completion"]
         /\ inv' = [inv EXCEPT ![t] = "Attempting"]
         /\ attempt' = [attempt EXCEPT ![t] = n]
         /\ loop' = {t}
         /\ UNCHANGED error
    ELSE /\ inv' = [inv EXCEPT ![t] = "Failed"]
         /\ Fail(t, AllRetriesError)
         /\ UNCHANGED attempt

\* The orchestrator calls openai_client.<method>(...)
CallCompletion(t, method) ==
    IF method \in OpenAIClientMethods
    THEN ForLoop(t, 0)
    ELSE /\ Fail(t, Raised("AttributeError", 0))
         /\ UNCHANGED <<inv, attempt>>

\* The route handler calls the orchestrator, which runs up to its first await
StartRequest(t, r, sequential) ==
    /\ phase = "serving"
    /\ pc[t] = "idle"
    /\ loop = {}
    /\ \A u \in Tasks : u < t => pc[u] # "idle"
    /\ sequential => \A u \in Tasks \ {t} : pc[u] = "idle" \/ Ended(u)
    /\ req' = [req EXCEPT ![t] = r]
    /\ IF UsesCache(r)
       THEN /\ pc' = [pc EXCEPT ![t] = "cache_get"]
            /\ loop' = AfterCacheCall(t)
            /\ UNCHANGED <<inv, attempt, error>>
       ELSE CallCompletion(t, "create_completion")
    /\ UNCHANGED <<log, op, max_retries, retry_delay, phase, redis, storeUp, cache, calls, lastOutcome, allRetryable,
                   sleeps, result, outage, expired>>

\* redis_client.get returns; a hit is returned, a miss goes on to generate
CacheGet(t) ==
    /\ pc[t] = "cache_get"
    /\ Runnable(t)
    /\ outage' = [outage EXCEPT ![t] = outage[t] \/ ~Available]
    /\ log' = log \o CheckEvents(t, RedisGet(CacheKey(req[t])))
    /\ LET r == req[t]
           cached == RedisGet(CacheKey(r))
       IN  IF cached # None
           THEN /\ pc' = [pc EXCEPT ![t] = "done"]
                /\ result' = [result EXCEPT ![t] =
                      IF r.orch = "explanation" THEN cached[1]
                      ELSE JsonLoads(cached[1])]
                /\ loop' = {}
                /\ UNCHANGED <<inv, attempt, error>>
           ELSE /\ UNCHANGED result
                /\ CASE r.orch = "explanation" ->
                          CallCompletion(t, "create_completion")
                     [] r.orch = "test" ->
                          IF Len(r.question_types) = 0
                          THEN /\ Fail(t, Raised("ZeroDivisionError", 0))
                               /\ UNCHANGED <<inv, attempt>>
                          ELSE CallCompletion(t, "chat_completion")
                     [] r.orch = "plan" ->
                          CallCompletion(t, "chat_completion")
    /\ UNCHANGED <<op, max_retries, retry_delay, phase, redis, storeUp, cache, req,
                   calls, lastOutcome, allRetryable, sleeps, expired>>

\* One pass of the for loop of create_completion: the endpoint is called and
\* answers with o; the response is returned to get_explanation, which
\* structures it and goes on to the cache write, or to generate_examples,
\* which returns the examples it extracts; or the except clause that catches
\* o sleeps or re-raises.  Only these two callers reach it.
Attempt(t, o) ==
    /\ pc[t] = "completion"
    /\ inv[t] = "Attempting"
    /\ loop = {t}
    /\ req[t].orch \in {"explanation", "examples"}
    /\ calls' = [calls EXCEPT ![t] = calls[t] + 1]
    /\ log' = log \o CompletionEvents(t, o.kind = "ok")
    /\ lastOutcome' = [lastOutcome EXCEPT ![t] = Raised(o.kind, o.status)]
    /\ allRetryable' = [allRetryable EXCEPT ![t] =
          allRetryable[t] /\ RetryableFailure(Raised(o.kind, o.status))]
    /\ IF o.kind = "ok"
       THEN /\ inv' = [inv EXCEPT ![t] = "Success"]
            /\ result' = [result EXCEPT ![t] =
                  IF req[t].orch = "explanation"
                  THEN ParseExplanation(Text(o.text), req[t].student_level)
                  ELSE GenerateExamples(Text(o.text), req[t].num_examples)]
            /\ IF UsesCache(req[t])
               THEN /\ pc' = [pc EXCEPT ![t] = "cache_set"]
                    /\ loop' = AfterCacheCall(t)
               ELSE /\ pc' = [pc EXCEPT ![t] = "done"]
                    /\ loop' = {}
            /\ UNCHANGED <<sleeps, error>>
       ELSE IF ShouldRetry(o, attempt[t], max_retries)
       THEN /\ inv' = [inv EXCEPT ![t] = "Retrying"]
            /\ sleeps' = [sleeps EXCEPT ![t] =
                  Append(sleeps[t], WaitTime(retry_delay, attempt[t]))]
            /\ UNCHANGED <<pc, loop, result, error>>
       ELSE /\ inv' = [inv EXCEPT ![t] = "Failed"]
            /\ Fail(t, Raised(o.kind, o.status))
            /\ UNCHANGED <<sleeps, result>>
    /\ UNCHANGED <<op, max_retries, retry_delay, phase, redis, storeUp, cache, req,
                   attempt, outage, expired>>

\* time.sleep(wait_time) returns and the for loop takes its next value
EndSleep(t) ==
    /\ pc[t] = "completion"
    /\ inv[t] = "Retrying"
    /\ loop = {t}
    /\ ForLoop(t, attempt[t] + 1)
    /\ UNCHANGED <<log, op, max_retries, retry_delay, phase, redis, storeUp, cache, req,
                   calls, lastOutcome, allRetryable, sleeps, result, outage, expired>>

\* redis_client.set(cache_key, explanation.model_dump()) returns, and
\* get_explanation returns the explanation
CacheSet(t) ==
    /\ pc[t] = "cache_set"
    /\ Runnable(t)
    /\ cache' = RedisSet(CacheKey(req[t]), result[t], None)
    /\ log' = log \o WriteEvents(t)
    /\ outage' = [outage EXCEPT ![t] = outage[t] \/ ~Available]
    /\ pc' = [pc EXCEPT ![t] = "done"]
    /\ loop' = {}
    /\ UNCHANGED <<op, max_retries, retry_delay, phase, redis, storeUp, req, inv,
                   attempt, calls, lastOutcome, allRetryable, sleeps, error, result, expired>>

\* POST /explanations/ with a JSON body: the framework validates the body
\* against ExplanationRequest and answers 422 without calling the handler, or
\* calls generate_explanation, which calls get_explanation
PostExplanation(t, body) ==
    IF ValidExplanationBody(body)
    THEN StartRequest(t, PostedRequest(body), FALSE)
    ELSE /\ phase = "serving"
         /\ pc[t] = "idle"
         /\ loop = {}
         /\ \A u \in Tasks : u < t => pc[u] # "idle"
         /\ req' = [req EXCEPT ![t] = InvalidRequest(body)]
         /\ pc' = [pc EXCEPT ![t] = "rejected"]
         /\ error' = [error EXCEPT ![t] = Raised("RequestValidationError", 422)]
         /\ UNCHANGED <<log, op, max_retries, retry_delay, phase, redis,
                        storeUp, cache, loop, inv, attempt, calls, lastOutcome,
                        allRetryable, sleeps, result, outage, expired>>

TaskStep(t, sequential) ==
    \/ \E r \in Requests : StartRequest(t, r, sequential)
    \/ CacheGet(t)
    \/ \E o \in Outcomes : Attempt(t, o)
    \/ EndSleep(t)
    \/ CacheSet(t)

Environment == Connect \/ StoreFail \/ StoreRecover \/ Expire

----------------------------------------------------------------------------
(* Calls on the cache layer: RedisClient's methods, the invalidations of    *)
(* CacheInvalidationService, ConversationContext.add_message                *)

configVars == <<max_retries, retry_delay>>
taskVars == <<loop, pc, req, inv, attempt, calls, sleeps, error, result,
              lastOutcome, allRetryable, outage, log>>

\* RedisClient.disconnect, awaited by lifespan at shutdown: the client object
\* is kept, its connections are closed.  Whether a later command opens a new
\* connection or raises is the library's choice.
Disconnect ==
    /\ phase = "serving"
    /\ phase' = "stopped"
    /\ redis' \in IF redis = "client" THEN {"client", "closed"} ELSE {redis}
    /\ UNCHANGED <<configVars, taskVars, storeUp, cache, expired, op>>

\* No call on the cache layer is under way
OpIdle == op.pc = "done"

\* The record of a call of a wrapper method that has returned
WrapperCall(name, key, returned) ==
    [name |-> name, pc |-> "done", key |-> key, ret |-> returned.value,
     raised |-> returned.raised, sent |-> redis # "none",
     answered |-> Available, phase |-> phase]

\* await redis_client.get(key)
GetCall(key) ==
    /\ OpIdle /\ loop = {}
    /\ op' = WrapperCall("get", key, Returned(RedisGet(key)))
    /\ UNCHANGED <<configVars, taskVars, phase, redis, storeUp, cache, expired>>

\* await redis_client.set(key, value)
SetCall(key, value) ==
    /\ OpIdle /\ loop = {}
    /\ cache' = RedisSet(key, value, None)
    /\ op' = WrapperCall("set", key, Returned(Available))
    /\ UNCHANGED <<configVars, taskVars, phase, redis, storeUp, expired>>

\* await redis_client.delete(key)
DeleteCall(key) ==
    /\ OpIdle /\ loop = {}
    /\ cache' = RedisDelete(key)
    /\ op' = WrapperCall("delete", key, Returned(Available))
    /\ UNCHANGED <<configVars, taskVars, phase, redis, storeUp, expired>>

\* await redis_client.check_health()
CheckHealthCall ==
    /\ OpIdle /\ loop = {}
    /\ op' = WrapperCall("check_health", <<>>, Returned(Available))
    /\ UNCHANGED <<configVars, taskVars, phase, redis, storeUp, cache, expired>>

\* An invalidation up to its first await: without a client it returns 0.
\* started: how many request events had happened when it was called.
BeginInvalidate(name, arg, patterns) ==
    /\ OpIdle /\ loop = {}
    /\ op' = [name |-> name, arg |-> arg, patterns |-> patterns,
              pc |-> IF redis = "none" THEN "done" ELSE "keys",
              found |-> {}, total |-> 0, ret |-> 0,
              failed |-> redis = "none", before |-> cache,
              started |-> Len(log)]
    /\ UNCHANGED <<configVars, taskVars, phase, redis, storeUp, cache, expired>>

InvalidateExplanation(topic, subject) ==
    BeginInvalidate("invalidate_explanation",
                    [topic |-> topic, subject |-> subject],
                    <<ExplanationPattern(topic, subject)>>)

InvalidateTestTemplates(subject) ==
    BeginInvalidate("invalidate_test_templates", [subject |-> subject],
                    <<TestPattern(subject)>>)

InvalidateLearningPlans(student_id) ==
    BeginInvalidate("invalidate_learning_plans", [student_id |-> student_id],
                    <<PlanPattern(student_id)>>)

InvalidateAll == BeginInvalidate("invalidate_all", <<>>, AllPatterns)

\* The invalidation goes on after a pattern is dealt with, total keys
\* deleted so far: the next pattern of invalidate_all, or the return
AfterPattern(total) ==
    IF Len(op.patterns) > 1
    THEN [op EXCEPT !.patterns = Tail(op.patterns), !.pc = "keys",
                    !.found = {}, !.total = total]
    ELSE [op EXCEPT !.pc = "done", !.found = {}, !.total = total, !.ret = total]

\* except Exception: return 0
InvalidateFailed == [op EXCEPT !.pc = "done", !.ret = 0, !.failed = TRUE]

\* keys = await redis_client.redis.keys(pattern) returns; if keys: ...
InvalidateKeys ==
    /\ op.pc = "keys" /\ loop = {}
    /\ op' = IF ~Available THEN InvalidateFailed
             ELSE IF Keys(Head(op.patterns)) # {}
                  THEN [op EXCEPT !.pc = "delete",
                                  !.found = Keys(Head(op.patterns))]
             ELSE AfterPattern(op.total)
    /\ UNCHANGED <<configVars, taskVars, phase, redis, storeUp, cache, expired>>

\* deleted = await redis_client.redis.delete(*keys) returns
InvalidateDelete ==
    /\ op.pc = "delete" /\ loop = {}
    /\ LET gone == { e \in cache : e.key \in op.found }
       IN  IF ~Available
           THEN op' = InvalidateFailed /\ UNCHANGED cache
           ELSE /\ cache' = cache \ gone
                /\ op' = AfterPattern(op.total + Cardinality(gone))
    /\ UNCHANGED <<configVars, taskVars, phase, redis, storeUp, expired>>

\* The callers of the conversation context: coroutines of the one event loop
Callers == {1, 2}

NoneHeld == [c \in Callers |-> None]

\* The context each add_message call under way has read and changed
Held == IF op.name = "add_message" THEN op.held ELSE NoneHeld

\* The messages passed to add_message so far, in the order of the calls
Added ==
    IF op.name \in {"add_message", "get_recent_topics"} THEN op.added ELSE <<>>

\* The messages of the add_message calls that ran while another call was
\* between its read and its write
Overlapped == IF op.name = "add_message" THEN op.overlapped ELSE {}

\* message = {"role", "content", "timestamp", "metadata": metadata or {}}:
\* topic is None when the metadata has no "topic" key
Message(content, topic) == [content |-> content, metadata |-> topic]

\* The list cut to its first n messages
LastMessages_KeepFirst(messages, n) ==
    SubSeq(messages, 1, Min(Len(messages), n))

\* if len(messages) > self.max_messages:
\*     messages = messages[-self.max_messages:]
LastMessages(messages, n) ==
    IF Len(messages) > n
    THEN SubSeq(messages, Len(messages) - n + 1, Len(messages))
    ELSE messages

\* ConversationContext.get_context: the messages of the stored context, []
\* when redis_client.get returns nothing
GetContext(key) ==
    LET context == RedisGet(key)
    IN  IF context # None THEN context[1].messages ELSE <<>>

\* ConversationContext.add_message called by c, up to the return of its cache
\* read: context = await redis_client.get(key) or {"messages": []}, the
\* message appended and the list cut to the last max_messages
AddMessageGet(c, user_id, conversation_id, message, sequential) ==
    /\ loop = {}
    /\ OpIdle \/ op.name = "add_message"
    /\ sequential => OpIdle
    /\ Held[c] = None
    /\ LET key == ConversationKey(user_id, conversation_id)
           context == RedisGet(key)
           messages == IF context # None THEN context[1].messages ELSE <<>>
           kept == LastMessages(Append(messages, message), ContextMaxMessages)
       IN  op' = [name |-> "add_message", pc |-> "set", key |-> key,
                  held |-> [Held EXCEPT ![c] =
                               Some([key |-> key, messages |-> kept])],
                  added |-> Append(Added, message),
                  overlapped |-> Overlapped \cup
                      IF Held = NoneHeld THEN {}
                      ELSE {message} \cup
                           { Held[d][1].messages[Len(Held[d][1].messages)] :
                               d \in { e \in Callers : Held[e] # None } }]
    /\ UNCHANGED <<configVars, taskVars, phase, redis, storeUp, cache, expired>>

\* await redis_client.set(key, context, ttl=self.ttl) returns to caller c
AddMessageSet(c) ==
    /\ loop = {}
    /\ op.name = "add_message"
    /\ op.held[c] # None
    /\ LET context == op.held[c][1]
           held == [op.held EXCEPT ![c] = None]
       IN  /\ cache' = RedisSet(context.key, [messages |-> context.messages],
                                Some(ContextTtl))
           /\ op' = [op EXCEPT !.held = held,
                               !.pc = IF held = NoneHeld THEN "done" ELSE "set"]
    /\ UNCHANGED <<configVars, taskVars, phase, redis, storeUp, expired>>

Reversed(s) == [i \in 1..Len(s) |-> s[Len(s) + 1 - i]]

\* list(dict.fromkeys(s)): each element once, at its first position
RECURSIVE FromKeys(_)
FromKeys(s) ==
    IF s = <<>> THEN <<>>
    ELSE LET front == FromKeys(SubSeq(s, 1, Len(s) - 1))
             last == s[Len(s)]
         IN  IF \E i \in 1..Len(front) : front[i] = last
             THEN front ELSE Append(front, last)

\* for msg in messages: if "topic" in metadata: topics.append(...)
MetadataTopics(messages) ==
    LET HasTopic(msg) == msg.metadata # None
        with == SelectSeq(messages, HasTopic)
    IN  [i \in 1..Len(with) |-> with[i].metadata[1]]

\* The topics in the order of their first occurrence
GetRecentTopics_OldestFirst(messages) == FromKeys(MetadataTopics(messages))

\* ConversationContext.get_recent_topics on the messages get_context returns
GetRecentTopics(messages) == FromKeys(Reversed(MetadataTopics(messages)))

\* await context_manager.get_recent_topics(user_id, conversation_id)
GetRecentTopicsCall(user_id, conversation_id) ==
    /\ loop = {}
    /\ OpIdle
    /\ LET key == ConversationKey(user_id, conversation_id)
       IN  op' = [name |-> "get_recent_topics", pc |-> "done", key |-> key,
                  added |-> Added, messages |-> GetContext(key),
                  ret |-> GetRecentTopics(GetContext(key))]
    /\ UNCHANGED <<configVars, taskVars, phase, redis, storeUp, cache, expired>>

\* The topics a message's metadata can name
Topics == {<<"a">>, <<"b">>}

\* add_message called by c while the service is serving and the store is up,
\* with the next message: its content is its number in the order of the calls
AddNext(c, topics, most, sequential) ==
    /\ phase = "serving" /\ Available
    /\ Len(Added) < most
    /\ \E topic \in topics :
          AddMessageGet(c, <<"a">>, <<"b">>, Message(Len(Added) + 1, topic),
                        sequential)

\* The add_message calls that fill the context domain of the store: one
\* caller, one message, while the stored list is short
FillContext ==
    /\ Len(GetContext(ConversationKey(<<"a">>, <<"b">>))) < MaxAdds
    /\ Len(Added) < MaxAdds
    /\ AddMessageGet(1, <<"a">>, <<"b">>, Message(1, None), TRUE)

\* cache_key = self._generate_cache_key(...), for two requests
DeriveKeys(r1, r2) ==
    /\ op = NoOp
    /\ r1.orch = r2.orch
    /\ op' = [name |-> "derive_keys", pc |-> "done", r1 |-> r1, r2 |-> r2,
              k1 |-> CacheKey(r1), k2 |-> CacheKey(r2)]
    /\ UNCHANGED <<configVars, taskVars, phase, redis, storeUp, cache, expired>>

\* explanation = self._parse_explanation(content, request.student_level)
ParseExplanationCall(text, student_level) ==
    /\ op = NoOp
    /\ op' = [name |-> "parse_explanation", pc |-> "done", text |-> text,
              student_level |-> student_level,
              ret |-> ParseExplanation(text, student_level)]
    /\ UNCHANGED <<configVars, taskVars, phase, redis, storeUp, cache, expired>>

\* content = response.choices[0].message.content and the rest of
\* _generate_questions_by_type
StructureQuestionsCall(content, question_type, topics, difficulty) ==
    /\ op = NoOp
    /\ op' = [name |-> "structure_questions", pc |-> "done",
              content |-> content, question_type |-> question_type,
              topics |-> topics, difficulty |-> difficulty,
              ret |-> StructureQuestions(content, question_type, topics,
                                         difficulty)]
    /\ UNCHANGED <<configVars, taskVars, phase, redis, storeUp, cache, expired>>

\* questions_per_type = self._distribute_questions(request.question_count,
\* request.question_types)
DistributeCall(total_count, question_types) ==
    /\ op = NoOp
    /\ op' = [name |-> "distribute_questions", pc |-> "done",
              total_count |-> total_count, question_types |-> question_types,
              ret |-> DistributeQuestions(total_count, question_types)]
    /\ UNCHANGED <<configVars, taskVars, phase, redis, storeUp, cache, expired>>

WrapperCalls ==
    \/ \E key \in StoreKeys \cup ConversationKeys : GetCall(key) \/ DeleteCall(key)
    \/ \E key \in StoreKeys : SetCall(key, 1)
    \/ CheckHealthCall

Invalidations ==
    \/ \E a \in InvalidatedTopics : InvalidateExplanation(a[1], a[2])
    \/ \E subject \in InvalidatedSubjects : InvalidateTestTemplates(subject)
    \/ \E student_id \in InvalidatedStudents : InvalidateLearningPlans(student_id)
    \/ InvalidateAll
    \/ InvalidateKeys
    \/ InvalidateDelete

----------------------------------------------------------------------------
(* Specifications *)

\* Requests served concurrently by the tasks of one event loop
Next == Environment \/ \E t \in Tasks : TaskStep(t, FALSE)

Spec == Init /\ [][Next]_vars

\* Requests made one after the other
NextSeq == Environment \/ \E t \in Tasks : TaskStep(t, TRUE)

SpecSeq == Init /\ [][NextSeq]_vars

\* One request, under any configured retry settings
NextRetry == Environment \/ TaskStep(1, FALSE)

SpecRetry == InitConfigured /\ [][NextRetry]_vars

\* One request under any configured retry settings; the endpoint call
\* returns or raises within the client's timeout, and time.sleep returns
SpecRetryFair ==
    /\ SpecRetry
    /\ WF_vars(\E o \in Outcomes : Attempt(1, o))
    /\ WF_vars(EndSleep(1))

\* add_message called again and again on one conversation, each call after
\* the one before has returned, on a store that stays up
NextContextSeq ==
    \/ Connect
    \/ \E c \in Callers : AddNext(c, {None, Some(<<"a">>)}, MaxMessages, TRUE)
    \/ \E c \in Callers : AddMessageSet(c)

SpecContextSeq == Init /\ [][NextContextSeq]_vars

\* add_message called by two coroutines on one conversation
NextContext ==
    \/ Connect
    \/ \E c \in Callers : AddNext(c, {None}, MaxConcurrentAdds, FALSE)
    \/ \E c \in Callers : AddMessageSet(c)

SpecContext == Init /\ [][NextContext]_vars

\* get_recent_topics on a conversation that add_message has filled
NextTopics ==
    \/ Connect
    \/ AddNext(1, {None} \cup { Some(topic) : topic \in Topics },
               MaxTopicMessages, TRUE)
    \/ AddMessageSet(1)
    \/ GetRecentTopicsCall(<<"a">>, <<"b">>)

SpecTopics == Init /\ [][NextTopics]_vars

\* The calls of RedisClient's methods and of add_message, made one at a time
\* by any caller, from before startup to after shutdown
NextStore ==
    \/ Environment
    \/ Disconnect
    \/ WrapperCalls
    \/ FillContext
    \/ AddMessageSet(1)

SpecStore == Init /\ [][NextStore]_vars

\* The invalidations, run one at a time on a store that callers have written
\* entries of the four domains to
NextInvalidation ==
    \/ Environment
    \/ \E key \in StoreKeys : SetCall(key, 1)
    \/ FillContext
    \/ AddMessageSet(1)
    \/ Invalidations

SpecInvalidation == Init /\ [][NextInvalidation]_vars

\* One explanation request and the invalidation of explanations
NextInvalidateExplanation ==
    \/ Environment
    \/ TaskStep(1, FALSE)
    \/ \E a \in InvalidatedTopics : InvalidateExplanation(a[1], a[2])
    \/ InvalidateKeys
    \/ InvalidateDelete

SpecInvalidateExplanation == Init /\ [][NextInvalidateExplanation]_vars

\* One request of any orchestrator and invalidate_all
NextInvalidateAll ==
    \/ Environment
    \/ TaskStep(1, FALSE)
    \/ InvalidateAll
    \/ InvalidateKeys
    \/ InvalidateDelete

SpecInvalidateAll == Init /\ [][NextInvalidateAll]_vars

\* The derivation of cache keys
NextKeys == \E r1 \in KeyRequests : \E r2 \in KeyRequests : DeriveKeys(r1, r2)

SpecKeys == Init /\ [][NextKeys]_vars

\* One POST /explanations/ with any body
NextPost ==
    \/ Environment
    \/ \E body \in ExplanationBodies : PostExplanation(1, body)
    \/ CacheGet(1)
    \/ \E o \in Outcomes : Attempt(1, o)
    \/ EndSleep(1)
    \/ CacheSet(1)

SpecPost == Init /\ [][NextPost]_vars

\* One call of the examples operation
NextExamples ==
    \/ Connect
    \/ \E r \in ExamplesQueries : StartRequest(1, r, FALSE)
    \/ \E o \in Outcomes : Attempt(1, o)
    \/ EndSleep(1)

SpecExamples == Init /\ [][NextExamples]_vars

\* The structuring of a generated explanation text
NextParseExplanation ==
    \E text \in ExplanationTexts : \E student_level \in StudentLevels :
        ParseExplanationCall(text, student_level)

SpecParseExplanation == Init /\ [][NextParseExplanation]_vars

\* The structuring of a generated questions text
NextStructureQuestions ==
    \E text \in QuestionTexts : \E items \in QuestionLists :
    \E question_type \in QuestionTypes : \E topics \in TopicLists :
    \E difficulty \in Difficulties :
        StructureQuestionsCall(QuestionsContent(text, items), question_type,
                               topics, difficulty)

SpecStructureQuestions == Init /\ [][NextStructureQuestions]_vars

\* The distribution of a question count over a list of question types
NextDistribute ==
    \E total_count \in 1..MaxQuestionCount : \E question_types \in TypeLists :
        DistributeCall(total_count, question_types)

SpecDistribute == Init /\ [][NextDistribute]_vars

----------------------------------------------------------------------------
(* The retry loop of create_completion *)

\* The invocation used up its attempts: max_retries >= 1 endpoint calls, each
\* failed with a retryable kind, and it is over
Exhausted(t) ==
    /\ max_retries >= 1
    /\ calls[t] = max_retries
    /\ allRetryable[t]
    /\ inv[t] = "Failed"

\* C1: for max_retries >= 1, an invocation whose every endpoint call fails
\* with a retryable kind makes exactly max_retries calls and is then failed:
\* it never calls more often, it is failed as soon as the max_retries-th call
\* has failed, and not before.
C1_ExactlyMaxAttempts ==
    \A t \in Tasks :
        (max_retries >= 1 /\ calls[t] >= 1 /\ allRetryable[t]) =>
            /\ calls[t] <= max_retries
            /\ calls[t] = max_retries <=> inv[t] = "Failed"
            /\ calls[t] < max_retries => inv[t] \in {"Retrying", "Attempting"}

C1_Witness ==
    \E t \in Tasks :
        /\ max_retries = 3
        /\ Exhausted(t)
        /\ calls[t] = 3
        /\ lastOutcome[t].kind = "RateLimitError"

\* C2 as stated: an invocation that used up its attempts fails with a
\* terminal "retries exhausted" error that differs from the classified error
\* of its last endpoint call.
C2_DistinctExhaustedError ==
    \A t \in Tasks :
        Exhausted(t) => error[t] = AllRetriesError /\ error[t] # lastOutcome[t]

\* C2 as amended: an invocation that used up its attempts fails with the
\* classified error of its last endpoint call itself, re-raised unchanged,
\* and not with the error raised after the loop.
C2_ReraisesLastError ==
    \A t \in Tasks :
        Exhausted(t) => error[t] = lastOutcome[t] /\ error[t] # AllRetriesError

C2_Witness ==
    \E t \in Tasks :
        /\ Exhausted(t)
        /\ max_retries = 3
        /\ error[t].kind = "APIConnectionError"

\* C3 as stated: with max_retries = 3 and retry_delay = 1, an invocation
\* whose calls are all rate-limited sleeps 1, 2 and 4 seconds, in that
\* order, before it fails.
C3_SleepsOneTwoFour ==
    \A t \in Tasks :
        ( /\ max_retries = 3
          /\ retry_delay = 1
          /\ Exhausted(t)
          /\ lastOutcome[t].kind = "RateLimitError" )
        => sleeps[t] = <<1, 2, 4>>

\* C3 as amended: the sleep after the failed attempt n (0-indexed) lasts
\* retry_delay * 2^n, and there is none after the last attempt: an invocation
\* that used up its attempts has slept max_retries - 1 times, which for
\* max_retries = 3 and retry_delay = 1 is 1 then 2 seconds.
C3_BackoffWithoutLastSleep ==
    \A t \in Tasks :
        /\ \A i \in 1..Len(sleeps[t]) : sleeps[t][i] = retry_delay * Pow2(i - 1)
        /\ Exhausted(t) => Len(sleeps[t]) = max_retries - 1
        /\ (Exhausted(t) /\ max_retries = 3 /\ retry_delay = 1)
              => sleeps[t] = <<1, 2>>

C3_Witness ==
    \E t \in Tasks :
        /\ max_retries = 3
        /\ retry_delay = 1
        /\ Exhausted(t)
        /\ lastOutcome[t].kind = "RateLimitError"
        /\ sleeps[t] = <<1, 2>>

\* C4: an endpoint call that fails with a non-retryable kind (a 4xx endpoint
\* error or another unexpected failure) ends the invocation at once with that
\* same error: the request is failed with it, no sleep follows the call, and
\* no further call or sleep is made afterwards.
C4_NonRetryableSurfacesAtOnce ==
    /\ [](\A t \in Tasks :
             NonRetryableFailure(lastOutcome[t]) =>
                 /\ inv[t] = "Failed"
                 /\ pc[t] = "failed"
                 /\ error[t] = lastOutcome[t]
                 /\ Len(sleeps[t]) = calls[t] - 1)
    /\ [][\A t \in Tasks :
             NonRetryableFailure(lastOutcome[t]) =>
                 /\ calls'[t] = calls[t]
                 /\ sleeps'[t] = sleeps[t]
                 /\ error'[t] = error[t]]_vars

C4_Witness ==
    \E t \in Tasks :
        /\ calls[t] = 1
        /\ max_retries = 3
        /\ inv[t] = "Failed"
        /\ error[t] = Raised("APIError", 400)
        /\ sleeps[t] = <<>>

\* C5: when the call of attempt n fails with a retryable kind and
\* n < max_retries - 1, the invocation sleeps once and the step that ends the
\* sleep starts attempt n + 1; a retryable failure is surfaced only by the
\* last attempt.
C5_RetriesWhileAttemptsRemain ==
    /\ [](\A t \in Tasks :
             (inv[t] = "Failed" /\ calls[t] >= 1 /\ RetryableFailure(error[t]))
                 => calls[t] = max_retries)
    /\ [][\A t \in Tasks :
             /\ ( /\ calls'[t] = calls[t] + 1
                  /\ RetryableFailure(lastOutcome'[t])
                  /\ attempt[t] < max_retries - 1 )
                => /\ inv'[t] = "Retrying"
                   /\ Len(sleeps'[t]) = Len(sleeps[t]) + 1
                   /\ attempt'[t] = attempt[t]
             /\ (inv[t] = "Retrying" /\ inv'[t] # "Retrying")
                => /\ inv'[t] = "Attempting"
                   /\ attempt'[t] = attempt[t] + 1
                   /\ sleeps'[t] = sleeps[t]
                   /\ calls'[t] = calls[t]]_vars

C5_Witness ==
    \E t \in Tasks :
        /\ inv[t] = "Attempting"
        /\ attempt[t] = 2
        /\ calls[t] = 2
        /\ lastOutcome[t] = Raised("APIError", 500)
        /\ Len(sleeps[t]) = 2

\* The moves of one invocation's state
InvocationMove(a, b) ==
    \/ a = b
    \/ a = "none" /\ b = "Attempting"
    \/ a = "none" /\ b = "Failed" /\ max_retries = 0
    \/ a = "Attempting" /\ b \in {"Success", "Retrying", "Failed"}
    \/ a = "Retrying" /\ b = "Attempting"

\* C6: an invocation makes at most max_retries endpoint calls and, whatever
\* the endpoint answers, reaches Success or Failed; both are terminal (no
\* call and no sleep follows), and the only cycle is Attempting -> Retrying
\* -> Attempting.
C6_InvocationTerminates ==
    /\ [](\A t \in Tasks : calls[t] <= max_retries)
    /\ [][\A t \in Tasks :
             /\ InvocationMove(inv[t], inv'[t])
             /\ inv[t] \in {"Success", "Failed"}
                => /\ calls'[t] = calls[t]
                   /\ sleeps'[t] = sleeps[t]]_vars
    /\ \A t \in Tasks :
          (inv[t] = "Attempting") ~> (inv[t] \in {"Success", "Failed"})

C6_Witness ==
    \E t \in Tasks :
        /\ inv[t] = "Success"
        /\ calls[t] = max_retries
        /\ max_retries = 3
        /\ Len(sleeps[t]) = 2

----------------------------------------------------------------------------
(* Request tasks and the cache *)

\* C7: while one invocation is in its backoff sleep only its own task is
\* held up: every other task that waits for the reply to its cache read or
\* write can take its next step (finish the lookup, start its own endpoint
\* attempt) during that sleep.
C7_SleepBlocksOnlyCaller ==
    \A t \in Tasks : \A u \in Tasks \ {t} :
        (inv[t] = "Retrying" /\ pc[u] \in {"cache_get", "cache_set"})
            => ENABLED TaskStep(u, FALSE)

\* Two explanation requests that read and write the same cache entry
SameCachedExplanation(t, u) ==
    /\ req[t].orch = "explanation" /\ req[t].use_cache
    /\ req[u].orch = "explanation" /\ req[u].use_cache
    /\ CacheKey(req[t]) = CacheKey(req[u])

\* C8: of two get_explanation calls made one after the other with the same
\* normalized request, the store reachable at each of their cache commands
\* and no entry expired, the second returns the result of the first and
\* calls the endpoint zero times; the endpoint calls of both are those of the
\* first: one, plus one per retry.
C8_SecondCallServedFromCache ==
    \A t \in Tasks : \A u \in Tasks :
        ( /\ t < u
          /\ SameCachedExplanation(t, u)
          /\ pc[t] = "done"
          /\ Ended(u)
          /\ ~outage[t] /\ ~outage[u] /\ ~expired )
        => /\ pc[u] = "done"
           /\ result[u] = result[t]
           /\ calls[u] = 0
           /\ calls[t] + calls[u] = 1 + Len(sleeps[t])

C8_Witness ==
    \E t \in Tasks : \E u \in Tasks :
        /\ t < u
        /\ SameCachedExplanation(t, u)
        /\ req[t] # req[u]
        /\ pc[t] = "done" /\ pc[u] = "done"
        /\ ~outage[t] /\ ~outage[u] /\ ~expired
        /\ result[u] = result[t]
        /\ result[u].content = 2
        /\ calls[t] = 1 /\ calls[u] = 0

\* C9: a generate_test or generate_plan call that found the store reachable
\* and no entry checks the cache, invokes the endpoint, structures the
\* response, writes it and returns it: it fails only when its endpoint call
\* failed, and once it has returned, the entry it wrote is in the cache.
C9_TestAndPlanWriteThrough ==
    \A t \in Tasks :
        (req[t].orch \in {"test", "plan"} /\ Ended(t) /\ ~outage[t]) =>
            /\ pc[t] = "failed" => calls[t] >= 1 /\ error[t] = lastOutcome[t]
            /\ (pc[t] = "done" /\ ~expired) => Stored(CacheKey(req[t])) # {}

\* C10: a request that found the store unreachable at a cache command is
\* served as a miss and fails only when its endpoint invocation failed: with
\* the endpoint and the structuring succeeding it succeeds.
C10_OutageNeverFailsRequest ==
    \A t \in Tasks :
        (Ended(t) /\ outage[t] /\ pc[t] = "failed") =>
            /\ inv[t] = "Failed"
            /\ error[t] \in {lastOutcome[t], AllRetriesError}

----------------------------------------------------------------------------
(* The cache store wrapper *)

WrapperNames == {"get", "set", "delete", "check_health"}

\* What a wrapper method returns when the store did not serve it
FailureValue(name) == IF name = "get" THEN None ELSE FALSE

\* C11 as stated: get, set, delete and check_health never raise, and in each
\* of the store states never connected, connect failed, store erroring and
\* after disconnect, get returns absent and set, delete and check_health
\* return False.
C11_FailsInEveryListedState ==
    op.name \in WrapperNames =>
        /\ ~op.raised
        /\ (~op.sent \/ ~op.answered \/ op.phase = "stopped")
              => op.ret = FailureValue(op.name)

\* C11 as amended: get, set, delete and check_health never raise in any
\* store state; whenever there is no client (never connected, connect
\* failed) or the store command fails (store erroring, connections closed),
\* get returns absent and set, delete and check_health return False.  After
\* disconnect the client object is kept and the command is still sent, so
\* the call fails only if that command does.
C11_FailuresAbsorbed ==
    op.name \in WrapperNames =>
        /\ ~op.raised
        /\ (~op.sent \/ ~op.answered) => op.ret = FailureValue(op.name)

C11_Witness ==
    /\ op.name = "delete"
    /\ op.phase = "serving"
    /\ op.sent /\ ~op.answered
    /\ ~op.raised
    /\ op.ret = FALSE
    /\ Stored(op.key) # {}

----------------------------------------------------------------------------
(* The order of events *)

\* The events of task t, in order
TaskEvents(t) ==
    LET OfTask(e) == e.task = t
        mine == SelectSeq(log, OfTask)
    IN  [i \in 1..Len(mine) |-> mine[i].ev]

\* C12: within one request the cache check comes first, every endpoint
\* invocation comes before the structuring of the response, which comes
\* right after the invocation that returned it and before the cache write,
\* the last event; a cache hit is followed by nothing.
C12_RequestEventsOrdered ==
    \A t \in Tasks :
        LET evs == TaskEvents(t)
        IN  \A i \in 1..Len(evs) :
                /\ evs[i] \in {"hit", "miss"} => i = 1
                /\ evs[i] = "hit" => Len(evs) = 1
                /\ evs[i] = "invoke" =>
                      /\ UsesCache(req[t]) => evs[1] = "miss"
                      /\ \A j \in 1..(i - 1) : evs[j] \in {"miss", "invoke"}
                /\ evs[i] = "structure" => i > 1 /\ evs[i - 1] = "invoke"
                /\ evs[i] = "write" =>
                      i = Len(evs) /\ i > 1 /\ evs[i - 1] = "structure"

C12_Witness ==
    /\ TaskEvents(1) = <<"miss", "invoke", "invoke", "structure", "write">>
    /\ TaskEvents(2) = <<"hit">>

\* The position in the log of the first event of task t among evs, 0 if none
FirstPos(t, evs) ==
    LET at == { i \in 1..Len(log) : log[i].task = t /\ log[i].ev \in evs }
    IN  IF at = {} THEN 0 ELSE CHOOSE i \in at : \A j \in at : i <= j

\* Both tasks made their cache check before either wrote
BothCheckedBeforeWrite(t, u) ==
    /\ FirstPos(t, {"hit", "miss"}) > 0
    /\ FirstPos(u, {"hit", "miss"}) > 0
    /\ \A w \in {t, u} :
          FirstPos(w, {"write"}) > 0 =>
              /\ FirstPos(t, {"hit", "miss"}) < FirstPos(w, {"write"})
              /\ FirstPos(u, {"hit", "miss"}) < FirstPos(w, {"write"})

\* C13: two requests with the same cache key that both check the cache
\* before either writes, with the store reachable and nothing expired, both
\* miss, both invoke the endpoint and, once both have returned, both have
\* written; the entry left is the one of the later write, and each returned
\* the result it generated itself.
C13_NoSingleFlight ==
    \A t \in Tasks : \A u \in Tasks \ {t} :
        ( /\ SameCachedExplanation(t, u)
          /\ BothCheckedBeforeWrite(t, u)
          /\ ~outage[t] /\ ~outage[u] /\ ~expired )
        => /\ TaskEvents(t)[1] = "miss" /\ TaskEvents(u)[1] = "miss"
           /\ (pc[t] = "done" /\ pc[u] = "done") =>
                 /\ calls[t] >= 1 /\ calls[u] >= 1
                 /\ FirstPos(t, {"write"}) > 0 /\ FirstPos(u, {"write"}) > 0
                 /\ FirstPos(t, {"structure"}) > 0
                 /\ FirstPos(u, {"structure"}) > 0
                 /\ FirstPos(t, {"write"}) < FirstPos(u, {"write"}) =>
                       \A e \in Stored(CacheKey(req[t])) :
                           e.value = JsonDumps(result[u])

C13_Witness ==
    /\ SameCachedExplanation(1, 2)
    /\ BothCheckedBeforeWrite(1, 2)
    /\ ~outage[1] /\ ~outage[2] /\ ~expired
    /\ pc[1] = "done" /\ pc[2] = "done"
    /\ calls[1] = 1 /\ calls[2] = 1
    /\ result[1] # result[2]
    /\ FirstPos(2, {"write"}) < FirstPos(1, {"write"})
    /\ Stored(CacheKey(req[1])) # {}
    /\ \A e \in Stored(CacheKey(req[1])) : e.value = JsonDumps(result[1])

----------------------------------------------------------------------------
(* Cache keys and invalidation *)

\* The step in which an invalidation of the given name returns, not through
\* its guard or its except clause, with no entry expired meanwhile
Completes(name) ==
    /\ op.pc # "done"
    /\ op'.pc = "done"
    /\ op'.name = name
    /\ ~op'.failed
    /\ ~expired'

\* The keys held by the store after the step
KeysAfter == { e.key : e \in cache' }

\* The keys held by the store when the call under way began
KeysBefore == { e.key : e \in op.before }

\* C14: for distinct student identifiers A and B, the key search of
\* invalidate_learning_plans(A) finds, and its delete removes, no key of a
\* learning plan of student B.
C14_OtherStudentsPlansKept ==
    [][ (op.pc = "delete" /\ op.name = "invalidate_learning_plans"
            /\ op' # op /\ ~op'.failed)
        => \A r \in KeyPlanRequests :
              ( /\ r.student_id # op.arg.student_id
                /\ Stored(PlanCacheKey(r)) # {} )
              => PlanCacheKey(r) \in KeysAfter ]_vars

\* A string field after trimming and lower-casing
Normalized(str) == Lower(Strip(str))

\* An optional string field after normalization, absent counting as empty
NormalizedOptional(opt) == IF opt = None THEN <<>> ELSE Normalized(opt[1])

NormalizedList(l) == [i \in 1..Len(l) |-> Normalized(l[i])]

\* Two explanation requests equal in their normalized fields
SameNormalizedExplanation(r1, r2) ==
    /\ Normalized(r1.topic) = Normalized(r2.topic)
    /\ Normalized(r1.subject) = Normalized(r2.subject)
    /\ NormalizedOptional(r1.context) = NormalizedOptional(r2.context)
    /\ r1.student_level = r2.student_level

\* C15: two explanation requests get the same cache key exactly when their
\* topic, subject and context are equal after trimming and lower-casing (an
\* absent context counting as empty) and their student_level is equal.
C15_ExplanationKeyOfNormalizedFields ==
    (op.name = "derive_keys" /\ op.r1.orch = "explanation") =>
        (op.k1 = op.k2 <=> SameNormalizedExplanation(op.r1, op.r2))

C15_Witness ==
    /\ op.name = "derive_keys"
    /\ op.r1.orch = "explanation"
    /\ op.r1.topic = <<"A">> /\ op.r2.topic = <<"a">>
    /\ op.r1.subject = <<"M">> /\ op.r2.subject = <<"m">>
    /\ op.r1.context = None /\ op.r2.context = Some(<<" ">>)
    /\ op.r1.student_level = op.r2.student_level
    /\ op.k1 = op.k2

\* Two test or learning-plan requests whose string fields differ at most in
\* letter case and surrounding whitespace, the other key fields equal
SameUpToCaseAndSpace(r1, r2) ==
    IF r1.orch = "test"
    THEN /\ Normalized(r1.subject) = Normalized(r2.subject)
         /\ NormalizedList(r1.topics) = NormalizedList(r2.topics)
         /\ r1.difficulty = r2.difficulty
         /\ r1.question_count = r2.question_count
         /\ r1.question_types = r2.question_types
    ELSE /\ r1.student_id = r2.student_id
         /\ NormalizedList(r1.subjects) = NormalizedList(r2.subjects)
         /\ NormalizedOptional(r1.exam_type) = NormalizedOptional(r2.exam_type)
         /\ r1.planning_days = r2.planning_days

\* C16: two test-generation requests, or two learning-plan requests, whose
\* string fields differ only in letter case or surrounding whitespace get
\* the same cache key.
C16_TestAndPlanKeysNormalized ==
    ( /\ op.name = "derive_keys"
      /\ op.r1.orch \in {"test", "plan"}
      /\ SameUpToCaseAndSpace(op.r1, op.r2) )
    => op.k1 = op.k2

\* C17: when invalidate_explanation(topic, subject) returns with the store
\* available, no entry of an explanation request with that topic and
\* subject is left in the cache.
C17_NoEntryLeftForTopic ==
    [][ Completes("invalidate_explanation")
        => \A r \in ExplanationRequests :
              (r.topic = op'.arg.topic /\ r.subject = op'.arg.subject)
              => ExplanationCacheKey(r) \notin KeysAfter ]_vars

\* C18: when invalidate_test_templates(subject) returns with the store
\* available, then with a subject given the cached tests it has deleted are
\* exactly those of requests with that subject, and with none given no
\* test: entry is left.
C18_DeletesTestsOfSubject ==
    [][ Completes("invalidate_test_templates")
        => IF op'.arg.subject # None
           THEN \A r \in KeyTestRequests :
                   TestCacheKey(r) \in KeysBefore =>
                       (r.subject = op'.arg.subject[1]
                            <=> TestCacheKey(r) \notin KeysAfter)
           ELSE \A k \in KeysAfter : ~HasPrefix(k, TestPrefix) ]_vars

\* A key of one of the three domains invalidate_all names
InDomains(k) ==
    \/ HasPrefix(k, ExplanationPrefix)
    \/ HasPrefix(k, TestPrefix)
    \/ HasPrefix(k, PlanPrefix)

\* C19: when invalidate_all returns, the store having answered each of its
\* commands, nothing written and nothing expired meanwhile, the entries
\* left are exactly those it found that lie under none of explanation:,
\* test: and learning_plan: (the conversation entries, unchanged), and it
\* returns the number of entries it deleted.
C19_InvalidateAllFrame ==
    [][ Completes("invalidate_all")
        => /\ cache' = { e \in op.before : ~InDomains(e.key) }
           /\ op'.ret = Cardinality({ e \in op.before : InDomains(e.key) }) ]_vars

C19_Witness ==
    /\ op.name = "invalidate_all"
    /\ op.pc = "done"
    /\ ~op.failed /\ ~expired
    /\ op.ret = Cardinality(StoreKeys)
    /\ { e.key : e \in op.before } = StoreKeys \cup ConversationKeys
    /\ { e.key : e \in cache } = ConversationKeys

----------------------------------------------------------------------------
(* Time to live *)

\* The default TTL of the domain a key belongs to
DomainTtl(k) ==
    IF HasPrefix(k, ExplanationPrefix) THEN RedisCacheTtl
    ELSE IF HasPrefix(k, TestPrefix) THEN TestCacheTtl
    ELSE IF HasPrefix(k, PlanPrefix) THEN PlanCacheTtl
    ELSE ContextTtl

\* The request missed the cache with the store reachable and its generation
\* did not fail at the endpoint
GeneratedFor(t) ==
    /\ Ended(t)
    /\ UsesCache(req[t])
    /\ ~outage[t]
    /\ TaskEvents(t) # <<>> /\ TaskEvents(t)[1] = "miss"
    /\ inv[t] # "Failed"

----------------------------------------------------------------------------
(* Work distribution *)

Distributed == op.name = "distribute_questions"

\* A list of categories as the work distributor takes it: not empty, no
\* category twice
DuplicateFree(l) ==
    /\ Len(l) >= 1
    /\ \A i \in 1..Len(l) : \A j \in 1..Len(l) : l[i] = l[j] => i = j

RECURSIVE SumSeq(_)
SumSeq(l) == IF l = <<>> THEN 0 ELSE Head(l) + SumSeq(Tail(l))

\* C21: for every total in 1..50 and every duplicate-free list of 1 to 3
\* categories, _distribute_questions returns one count per category, none
\* negative, that add up to the total exactly and differ from each other by
\* at most 1.
C21_DistributionConserved ==
    (Distributed /\ DuplicateFree(op.question_types)) =>
        LET values == DictValues(op.ret.distribution)
        IN  /\ op.ret.raised = NoError
            /\ Len(values) = Len(op.question_types)
            /\ \A i \in 1..Len(values) : values[i] >= 0
            /\ SumSeq(values) = op.total_count
            /\ \A i \in 1..Len(values) : \A j \in 1..Len(values) :
                   values[i] - values[j] <= 1

\* 50 questions over three distinct types: 17, 17 and 16
C21_Witness ==
    /\ Distributed
    /\ op.total_count = MaxQuestionCount
    /\ DuplicateFree(op.question_types)
    /\ Len(op.question_types) = Cardinality(QuestionTypes)
    /\ SumSeq(DictValues(op.ret.distribution)) = MaxQuestionCount

\* C22: the category at index i (from 0) of a duplicate-free list of n
\* categories gets total div n, plus 1 when i < total mod n: the extra units go
\* to the earliest categories, and the mapping lists the categories in input
\* order; distribute(10, [A, B, C]) = {A: 4, B: 3, C: 3}.
C22_ExtraUnitsToEarliest ==
    (Distributed /\ DuplicateFree(op.question_types)) =>
        LET d == op.ret.distribution
            n == Len(op.question_types)
            base == op.total_count \div n
            remainder == op.total_count % n
        IN  /\ Len(d) = n
            /\ \A j \in 1..n :
                  /\ d[j].key = op.question_types[j]
                  /\ d[j].value = IF j - 1 < remainder THEN base + 1 ELSE base
            /\ (op.total_count = 10 /\ n = 3) => DictValues(d) = <<4, 3, 3>>

\* distribute(10, [true_false, multiple_choice, open_ended])
C22_Witness ==
    /\ Distributed
    /\ op.total_count = 10
    /\ op.question_types = <<TrueFalse, MultipleChoice, OpenEnded>>
    /\ op.ret.distribution = <<Item(TrueFalse, 4), Item(MultipleChoice, 3),
                               Item(OpenEnded, 3)>>

----------------------------------------------------------------------------
(* The structuring of explanations *)

Parsed == op.name = "parse_explanation"

\* n is word_count / 200 rounded to the nearest integer, a tie to the even one
NearestToWordsPer200(n, word_count) ==
    LET off == 200 * n - word_count
    IN  /\ off >= -100 /\ off <= 100
        /\ (off = 100 \/ off = -100) => n % 2 = 0

\* C23: for every raw text and every student level 1..12 the explanation
\* _parse_explanation builds has at most 3 examples and at most 5 related
\* topics, its difficulty is the student level clamped to 1..10, its read time
\* is the larger of 1 and word_count / 200 rounded, and thus the Explanation
\* record's field constraints hold: constructing it never fails.
C23_ExplanationWithinConstraints ==
    Parsed =>
        LET e == op.ret
            level == op.student_level
            words == op.text.words
        IN  /\ Len(e.examples) <= 3
            /\ Len(e.related_topics) <= 5
            /\ e.difficulty = (IF level > 10 THEN 10 ELSE IF level < 1 THEN 1
                               ELSE level)
            /\ e.difficulty \in 1..10
            /\ \E n \in 0..(words \div 200 + 1) :
                  /\ NearestToWordsPer200(n, words)
                  /\ e.estimated_read_time = (IF n >= 1 THEN n ELSE 1)
            /\ e.estimated_read_time >= 1
            /\ ExplanationValid(e)

\* A 500-word text with 5 structured examples and 7 related topics, level 12:
\* 3 examples, 5 related topics, difficulty 10, 2 minutes (2.5 rounds to 2)
C23_Witness ==
    /\ Parsed
    /\ op.student_level = 12
    /\ op.text.words = 500 /\ op.text.structured = 5 /\ op.text.related = 7
    /\ Len(op.ret.examples) = 3 /\ Len(op.ret.related_topics) = 5
    /\ op.ret.difficulty = 10 /\ op.ret.estimated_read_time = 2

\* C24: a text that has the word "example" but no match of a structured
\* example pattern gives exactly one example, the placeholder; a text with at
\* least one match gives no placeholder; a text without the word gives no
\* example.
C24_PlaceholderOnlyWithoutMatches ==
    Parsed =>
        LET examples == op.ret.examples
        IN  /\ (op.text.mentions /\ op.text.structured = 0) =>
                   examples = <<Placeholder>>
            /\ op.text.structured >= 1 =>
                   /\ Len(examples) >= 1
                   /\ \A i \in 1..Len(examples) : examples[i] # Placeholder
            /\ ~op.text.mentions => examples = <<>>

C24_Witness ==
    /\ Parsed
    /\ op.text.mentions /\ op.text.structured = 0
    /\ op.ret.examples = <<Placeholder>>

----------------------------------------------------------------------------
(* The structuring of questions *)

Structured == op.name = "structure_questions"

\* C26: every question record test generation produces has its required
\* fields populated; its points are 1 for a difficulty up to 3, 2 up to 6 and
\* 3 above; its topic is the element's own when the element supplies one and
\* otherwise topics[i mod len(topics)] for the element at index i; its type
\* and difficulty are the requested ones.
C26_QuestionRecordsPopulated ==
    (Structured /\ op.ret.raised = NoError) =>
        /\ Len(op.ret.questions) = Len(op.content.items)
        /\ \A j \in 1..Len(op.ret.questions) :
              LET q == op.ret.questions[j]
                  q_data == op.content.items[j]
                  d == op.difficulty
              IN  /\ q.id # None /\ q.content # None
                  /\ q.correct_answer # None /\ q.explanation # None
                  /\ q.topic # None
                  /\ q.points = (CASE d \in 1..3 -> 1 [] d \in 4..6 -> 2
                                   [] OTHER -> 3)
                  /\ q_data.topic # Absent => Some(q.topic) = q_data.topic
                  /\ q_data.topic = Absent =>
                        q.topic = Some(op.topics[((j - 1) % Len(op.topics)) + 1])
                  /\ q.type = op.question_type
                  /\ q.difficulty = d

\* Three elements, the second with its own topic, two requested topics,
\* difficulty 6: topics a, z, a and 2 points each
C26_Witness ==
    /\ Structured /\ op.ret.raised = NoError
    /\ op.difficulty = 6
    /\ op.topics = << <<"a">>, <<"b">> >>
    /\ Len(op.ret.questions) = 3
    /\ op.ret.questions[1].topic = Some(<<"a">>)
    /\ op.ret.questions[2].topic = Some(<<"z">>)
    /\ op.ret.questions[3].topic = Some(<<"a">>)
    /\ op.ret.questions[3].points = 2

Wrote(t) == \E i \in 1..Len(log) : log[i] = Ev(t, "write")

----------------------------------------------------------------------------
(* The examples operation *)

\* C27: GET /explanations/examples returns exactly num_examples examples, for
\* every accepted num_examples (1..5), when the generated text has at least
\* that many structured examples.
C27_ReturnsNumExamples ==
    \A t \in Tasks :
        (req[t].orch = "examples" /\ pc[t] = "done"
         /\ Text(result[t].content).structured >= req[t].num_examples) =>
            Len(result[t].examples) = req[t].num_examples

----------------------------------------------------------------------------
(* Request validation *)

\* The invalid requests the claim lists
ListedInvalid(body) ==
    \/ body.topic = None \/ body.subject = None \/ body.student_level = None
    \/ body.student_level # None /\ body.student_level[1] \notin 1..12
    \/ body.topic = Some(<<>>)

\* C28: an explanation request with student_level outside 1..12, with a
\* required field missing or with an empty topic is answered with a validation
\* error (422) and the orchestrator does not run for it: no cache read, no
\* endpoint invocation, no cache write.
C28_InvalidRequestRejected ==
    \A t \in Tasks :
        (req[t] # NoRequest /\ ListedInvalid(req[t].posted)) =>
            /\ pc[t] = "rejected"
            /\ error[t].status = 422
            /\ TaskEvents(t) = <<>>
            /\ calls[t] = 0
            /\ cache = {}

\* student_level 15 (with the store connected and up)
C28_Witness ==
    /\ pc[1] = "rejected"
    /\ req[1].posted.student_level = Some(15)
    /\ req[1].posted.topic = Some(<<"a">>)
    /\ Available

----------------------------------------------------------------------------
(* The creation of cache entries *)

\* The step is the cache write of a request whose generation succeeded: the
\* endpoint call returned, the response was structured, and the entry
\* written holds that result under the request's key
WriteOfGenerated(t) ==
    /\ pc[t] = "cache_set" /\ pc'[t] = "done"
    /\ inv[t] = "Success"
    /\ result[t] # NoResult
    /\ error[t] = NoError
    /\ \A e \in cache' \ cache :
          e.key = CacheKey(req[t]) /\ e.value = JsonDumps(result[t])

----------------------------------------------------------------------------
(* The test key and the request it stands for *)

Elements(l) == { l[i] : i \in 1..Len(l) }

\* C30: generate_test returns the entry stored under the key of the current
\* request, and a test is stored under the key of the request it was
\* generated for, so two test requests with the same key are equal in every
\* field that affects generation: the same subject, set of topics,
\* difficulty and question count, the same student_level and the same order
\* of question_types (which decides the distribution over the types).
C30_SameKeySameGeneration ==
    ( /\ op.name = "derive_keys"
      /\ op.r1.orch = "test" /\ op.r2.orch = "test"
      /\ op.k1 = op.k2 )
    => /\ op.r1.subject = op.r2.subject
       /\ Elements(op.r1.topics) = Elements(op.r2.topics)
       /\ op.r1.difficulty = op.r2.difficulty
       /\ op.r1.question_count = op.r2.question_count
       /\ op.r1.student_level = op.r2.student_level
       /\ op.r1.question_types = op.r2.question_types

----------------------------------------------------------------------------
(* The distribution for every accepted list of types *)

\* C31: for every accepted request (question_count 1..50, any list of
\* question types, also one with a type twice or an empty one)
\* _generate_questions gets the distribution without an error, and the counts
\* it asks the endpoint for, one per entry of the distribution, add up to
\* question_count.
C31_EveryAcceptedListDistributed ==
    Distributed =>
        /\ op.ret.raised = NoError
        /\ SumSeq(DictValues(op.ret.distribution)) = op.total_count

----------------------------------------------------------------------------
(* Invalidation and requests under way *)

\* Task t made its cache check before the invalidation on record was called
CheckedBeforeInvalidation(t) ==
    \E i \in 1..Len(log) :
        /\ i <= op.started
        /\ log[i].task = t /\ log[i].ev \in {"hit", "miss"}

\* C32: once an invalidation has completed, the cache holds no entry of the
\* invalidated domain that was generated by a request whose cache check came
\* before the invalidation was called, also when that request was generating
\* while the invalidation ran.
C32_NoStaleEntryAfterInvalidation ==
    \A t \in Tasks :
        ( /\ op.name = "invalidate_all" /\ op.pc = "done" /\ ~op.failed
          /\ CheckedBeforeInvalidation(t)
          /\ Wrote(t) /\ ~outage[t] )
        => Stored(CacheKey(req[t])) = {}

----------------------------------------------------------------------------
(* Requests that bypass the cache *)

\* Task t runs get_explanation with the cache bypassed
Bypasses(t) ==
    /\ pc[t] # "idle"
    /\ req[t].orch = "explanation"
    /\ ~(req[t].use_cache /\ cache_enabled)

\* The step is one of task t
StepOf(t) ==
    <<pc[t], inv[t], attempt[t], calls[t]>>' # <<pc[t], inv[t], attempt[t], calls[t]>>

\* C33: get_explanation called with use_cache=False (or with cache_enabled
\* False) reads nothing from the cache and writes nothing to it: it is never
\* at a cache call, it has no check and no write among its events, it ends
\* only after invoking the endpoint, and none of its steps changes the cache.
C33_BypassLeavesCacheAlone ==
    /\ [](\A t \in Tasks : Bypasses(t) =>
            /\ pc[t] \notin {"cache_get", "cache_set"}
            /\ \A i \in 1..Len(TaskEvents(t)) :
                  TaskEvents(t)[i] \notin {"hit", "miss", "write"}
            /\ Ended(t) => calls[t] >= 1)
    /\ [][\A t \in Tasks : (Bypasses(t)' /\ StepOf(t)) => cache' = cache]_vars

\* A bypassing request has returned an explanation it generated although the
\* cache held an entry that another request had stored
C33_Witness ==
    \E t \in Tasks :
        /\ Bypasses(t) /\ pc[t] = "done" /\ calls[t] >= 1
        /\ result[t] # NoResult
        /\ cache # {}

----------------------------------------------------------------------------
(* The conversation context *)

TheConversation == ConversationKey(<<"a">>, <<"b">>)

\* The last n elements of s
Recent(s, n) == [i \in 1..n |-> s[Len(s) - n + i]]

\* C34: after any sequence of add_message calls made one after the other on
\* one conversation with a live cache, the stored list has at most
\* max_messages entries and is the most recent min(k, max_messages) of the
\* k messages added, in the order they were added.
C34_KeepsMostRecentMessages ==
    (OpIdle /\ Available) =>
        LET stored == GetContext(TheConversation)
            k == Len(Added)
        IN  /\ Len(stored) <= ContextMaxMessages
            /\ stored = Recent(Added, Min(k, ContextMaxMessages))

\* More than max_messages messages have been added and the oldest are gone
C34_Witness ==
    /\ OpIdle
    /\ Len(Added) > ContextMaxMessages + 1
    /\ Len(GetContext(TheConversation)) = ContextMaxMessages
    /\ GetContext(TheConversation)[1] = Added[Len(Added) - ContextMaxMessages + 1]
    /\ GetContext(TheConversation)[1].content = 3

\* C35: when two add_message calls on one conversation run concurrently and
\* the stored context holds fewer than max_messages - 1 messages, both new
\* messages are in the stored context once both calls have completed.
C35_NoMessageLostToInterleaving ==
    (OpIdle /\ Len(Added) < ContextMaxMessages) =>
        \A message \in Overlapped :
            \E i \in 1..Len(GetContext(TheConversation)) :
                GetContext(TheConversation)[i] = message

\* get_recent_topics has returned
ReadTopics == op.name = "get_recent_topics"

\* The position of the last message that names the topic
LastNamed(messages, topic) ==
    LET named == {0} \cup { i \in 1..Len(messages) :
                                messages[i].metadata = Some(topic) }
    IN  CHOOSE i \in named : \A j \in named : j <= i

\* C37: get_recent_topics returns each topic that appears in the metadata of
\* the stored messages exactly once, ordered by the position of its most
\* recent occurrence, most recent first; with no stored context it returns
\* the empty list.
C37_RecentTopicsUniqueNewestFirst ==
    ReadTopics =>
        LET messages == op.messages
            ret == op.ret
        IN  /\ \A i \in 1..Len(messages) :
                  messages[i].metadata # None =>
                      \E j \in 1..Len(ret) : Some(ret[j]) = messages[i].metadata
            /\ \A j \in 1..Len(ret) : LastNamed(messages, ret[j]) > 0
            /\ \A i, j \in 1..Len(ret) :
                  i < j => LastNamed(messages, ret[i]) > LastNamed(messages, ret[j])
            /\ Stored(op.key) = {} => ret = <<>>

\* Two topics are returned, and the one returned first was also named before
\* the other one was
C37_Witness ==
    /\ ReadTopics
    /\ Len(op.ret) = 2
    /\ \E i, j, k \in 1..Len(op.messages) :
          /\ i < j /\ j < k
          /\ op.messages[i].metadata = Some(op.ret[1])
          /\ op.messages[j].metadata = Some(op.ret[2])
          /\ op.messages[k].metadata = Some(op.ret[1])

\* get_recent_topics has returned the empty list for a conversation that
\* has no stored context
C37_WitnessNoContext ==
    ReadTopics /\ Stored(op.key) = {} /\ op.ret = <<>>

----------------------------------------------------------------------------
(* What the invalidations return *)

InvalidationNames ==
    {"invalidate_explanation", "invalidate_test_templates",
     "invalidate_learning_plans", "invalidate_all"}

\* An invalidation has returned
Invalidated == op.name \in InvalidationNames /\ op.pc = "done"

\* C36: an invalidation never raises: when the store is unavailable or a
\* command fails it returns 0 and has deleted nothing, and otherwise the
\* number it returns is the number of keys it removed from the store.
C36_ReturnsWhatItRemoved ==
    Invalidated =>
        IF op.failed
        THEN op.ret = 0 /\ op.total = 0
        ELSE op.ret = op.total

----------------------------------------------------------------------------
(* Sleeps and attempts of create_completion *)

\* The invocation of create_completion by task t is over
Over(t) == inv[t] \in {"Success", "Failed"}

\* C38: in one invocation of create_completion the number of backoff sleeps
\* is one less than the number of endpoint attempts when the invocation
\* fails by exhaustion, and equal to the number of failed attempts when it
\* succeeds; no sleep follows the final attempt; and with max_retries = 0
\* the invocation makes no attempt and fails with the error raised after
\* the loop, 'Failed to create completion after all retries'.
C38_SleepsBetweenAttemptsOnly ==
    \A t \in Tasks :
        /\ Exhausted(t) => Len(sleeps[t]) = calls[t] - 1
        /\ inv[t] = "Success" =>
              /\ lastOutcome[t].kind = "ok"
              /\ Len(sleeps[t]) = calls[t] - 1
        /\ (Over(t) /\ calls[t] >= 1) => Len(sleeps[t]) = calls[t] - 1
        /\ inv[t] = "Retrying" =>
              /\ Len(sleeps[t]) = calls[t]
              /\ calls[t] < max_retries
        /\ (max_retries = 0 /\ inv[t] # "none") =>
              /\ inv[t] = "Failed"
              /\ calls[t] = 0
              /\ sleeps[t] = <<>>
              /\ error[t] = AllRetriesError

\* An invocation has used up four attempts and slept three times
C38_Witness ==
    \E t \in Tasks :
        /\ Exhausted(t)
        /\ max_retries = 4
        /\ calls[t] = 4
        /\ Len(sleeps[t]) = 3

\* With max_retries = 0 an invocation has failed without an attempt
C38_WitnessNoAttempt ==
    \E t \in Tasks :
        /\ max_retries = 0
        /\ inv[t] = "Failed"
        /\ calls[t] = 0
        /\ error[t] = AllRetriesError

\* An invocation has succeeded after two failed attempts and two sleeps
C38_WitnessSuccess ==
    \E t \in Tasks :
        inv[t] = "Success" /\ calls[t] = 3 /\ Len(sleeps[t]) = 2

====
